---- MODULE Spec2Model ----
(***************************************************************************)
(* The LLM Council orchestration pipeline of backend/council.py, with the  *)
(* worker client of backend/worker_client.py and the reply schemas of      *)
(* backend/worker_protocol.py.                                             *)
(*                                                                         *)
(* A state is one invocation of an exported operation of council.py:       *)
(* run_full_council, or one of the stage functions the API layer calls     *)
(* directly (stage2_collect_rankings, stage3_synthesize_final).  The       *)
(* remote workers are the environment: every outbound call ends with a     *)
(* reply or with the absent value None.                                    *)
(*                                                                         *)
(* The reply schemas declare no token fields, so the reads of              *)
(* resp.prompt_tokens in Stages 1-3 raise AttributeError: a stage function *)
(* returns only on the paths that build no entry from a reply.             *)
(*                                                                         *)
(* The pure functions of council.py have specifications of their own, in   *)
(* which one call is made with arguments drawn from bounded sets:          *)
(* SanitizeSpec (_sanitize_parsed_ranking), ParseSpec                      *)
(* (parse_ranking_from_text), ScoresSpec (parse_scores_from_text) and      *)
(* AggregateSpec (calculate_aggregate_rankings,                            *)
(* calculate_aggregate_scores).  So have one call of the worker client     *)
(* down to its HTTP exchange (ClientSpec) and generate_conversation_title  *)
(* (TitleSpec).                                                            *)
(***************************************************************************)
EXTENDS Integers, Sequences, FiniteSets, TLC

VARIABLES
    entry,              \* the exported operation that was invoked
    council,            \* topology: council worker names, in file order
    title_generator,    \* topology: title_generator (a name or None)
    chairman_down,      \* environment: the chairman endpoint is unreachable
    orig_query,         \* the argument of run_full_council
    user_query,         \* the local user_query (re-bound by normalisation)
    pc,                 \* position in the invoked operation
    stages,             \* history: the pipeline stages entered so far
    sent,               \* calls issued so far, per kind and council position
    norm_to,            \* council position the translation call went to (0: none)
    s1,                 \* Stage-1 broadcast: per position "idle", "pending" or the reply
    stage1_results,     \* list of Stage-1 result records
    s2,                 \* Stage-2 _rank_one task per council position
    stage2_results,     \* list of Stage-2 entries
    label_to_model,     \* dict label -> worker name
    aggregate_rankings, \* list of AggregateRanking entries
    aggregate_scores,   \* list of AggregateScore entries
    synth_calls,        \* synthesis requests sent to the chairman, in order
    synth,              \* the chairman's first reply (None until it arrives)
    stage3_result,      \* <<result>> once stage3_synthesize_final has returned
    returned,           \* <<bundle>> once run_full_council has returned, else <<>>
    raised,             \* the exception that left the operation ("" if none)
    stage2_locals,      \* locals of the Stage-2 entry loop when an exception left it
    fn,                 \* the pure function invoked on its own ("" in the pipeline)
    args,               \* its arguments
    ret,                \* <<value>> once it has returned, else <<>>
    posted,             \* worker client: URLs of the HTTP requests it has sent
    exchange,           \* worker client: how its HTTP exchange ended (<<>>: not yet)
    reply,              \* <<outcome>> of the translation call or the title call
    title,              \* generate_conversation_title: the local title
    worker,             \* worker.py: the worker process, its requests and counter
    disk                \* storage.py: the conversation file and the calls made on it

vars == <<entry, council, title_generator, chairman_down, orig_query, user_query,
          pc, stages, sent, norm_to, s1, stage1_results, s2, stage2_results,
          label_to_model, aggregate_rankings, aggregate_scores, synth_calls,
          synth, stage3_result, returned, raised, stage2_locals, fn, args, ret,
          posted, exchange, reply, title, worker, disk>>

----------------------------------------------------------------------------
(* Bounds of the model.                                                    *)

\* longest council list of the topologies explored
MaxCouncil == 3

----------------------------------------------------------------------------
(* Values.                                                                 *)

\* Python's None: an absent reply, an unset optional
None == "<None>"

\* worker names the topologies draw from
Names == <<"w1", "w2", "w3", "w4", "w5">>

ChairmanName == "chairman"

\* texts, by what the pipeline inspects of them: emptiness and script
Contents == {"", "en", "zh"}

\* outcome of one worker_chat_full / worker_synthesize_full call
Outcomes == Contents \cup {None}

\* _contains_non_english_script: a character of a CJK, kana, Hangul,
\* Cyrillic or Arabic block occurs in the text
_contains_non_english_script(text) == text \in {"zh", " zh ", "ru"}

\* str.strip() on the modelled texts: " " is all blanks, the others have
\* no surrounding blanks
Strip(text) == IF text = " " THEN "" ELSE IF text = " zh " THEN "zh" ELSE text

\* chr(65 + i)
Letters == <<"A", "B", "C", "D", "E", "F">>
Chr65(i) == Letters[i + 1]

\* f"Response {label}"
ResponseLabel(letter) == "Response " \o letter

Range(f) == {f[x] : x \in DOMAIN f}

----------------------------------------------------------------------------
(* Topology: what load_council_topology accepts.  council has at least one *)
(* endpoint and every name is non-empty; nothing requires the names to be  *)
(* distinct, nor title_generator to name a council member.                 *)

DistinctCouncil(n) == [i \in 1..n |-> Names[i]]
RepeatedCouncil(n) == [i \in 1..n |-> IF i = n THEN Names[1] ELSE Names[i]]

Topologies ==
    {DistinctCouncil(n) : n \in 1..MaxCouncil}
        \cup {RepeatedCouncil(n) : n \in 2..MaxCouncil}

\* _get_council_workers: [{name, base_url}] in council order; the base_url
\* of an endpoint is identified with its position in the list
_get_council_workers == council

Positions == 1..Len(_get_council_workers)

\* kinds of calls to council workers: translation, Stage 1, Stage-1 rewrite,
\* Stage-2 review, Stage-2 rewrite, title, title rewrite
Kinds == {"norm", "s1", "s1rw", "s2", "s2rw", "title", "titlerw"}

NoCalls == [k \in Kinds |-> [i \in Positions |-> 0]]

Issue(calls, kind, targets) ==
    [calls EXCEPT ![kind] =
        [i \in Positions |-> IF i \in targets THEN @[i] + 1 ELSE @[i]]]

----------------------------------------------------------------------------
(* worker_protocol.py: the reply schemas.                                  *)

\* ChatResponse declares content, latency_ms, worker_name, model, role and
\* no token field, so reading resp.prompt_tokens raises AttributeError
ChatResponseHasTokenFields == FALSE

\* SynthesizeResponse declares model, response, latency_ms and no token field
SynthesizeResponseHasTokenFields == FALSE

----------------------------------------------------------------------------
(* normalize_user_query_to_english                                         *)

\* the worker the translation (and the title) call goes to:
\* preferred_name = topo.title_generator or council_workers[0]["name"];
\* next(x for x in council_workers if x["name"] == preferred_name) or council_workers[0]
PreferredWorker ==
    LET preferred_name == IF title_generator # None THEN title_generator ELSE council[1]
        hits == {i \in Positions : council[i] = preferred_name}
    IN  IF hits # {} THEN CHOOSE i \in hits : \A j \in hits : i <= j ELSE 1

\* lines 34-38: an empty or Latin-only query is returned without any call
NormalizeSkip ==
    /\ pc = "normalizing"
    /\ (Strip(orig_query) = "" \/ ~_contains_non_english_script(Strip(orig_query)))
    /\ user_query' = Strip(orig_query)
    /\ pc' = "stage1"
    /\ stages' = Append(stages, "Stage1")
    /\ UNCHANGED <<worker, disk, reply, title, posted, exchange, stage2_locals, fn, args, ret, entry, council, title_generator, chairman_down, orig_query, sent,
                   norm_to, s1, stage1_results, s2, stage2_results, label_to_model,
                   aggregate_rankings, aggregate_scores, synth_calls, synth,
                   stage3_result, returned, raised>>

\* lines 40-65: one translation call to the preferred council worker
NormalizeCall ==
    /\ pc = "normalizing"
    /\ Strip(orig_query) # ""
    /\ _contains_non_english_script(Strip(orig_query))
    /\ norm_to' = PreferredWorker
    /\ sent' = Issue(sent, "norm", {PreferredWorker})
    /\ pc' = "normalizing_wait"
    /\ UNCHANGED <<worker, disk, reply, title, posted, exchange, stage2_locals, fn, args, ret, entry, council, title_generator, chairman_down, orig_query,
                   user_query, stages, s1, stage1_results, s2, stage2_results,
                   label_to_model, aggregate_rankings, aggregate_scores, synth_calls,
                   synth, stage3_result, returned, raised>>

\* outcomes of the translation call: those of any call, a blank text,
\* quoted texts, and a text in another non-Latin script
TranslationOutcomes == Outcomes \cup {" ", "'en'", "''", "ru"}

\* line 69: .strip('"\'') on the modelled texts
StripQuotes(text) == IF text = "'en'" THEN "en" ELSE IF text = "''" THEN "" ELSE text

\* lines 66-71: the translation is taken when it is non-empty and Latin-only
\* fault variant: the translation is taken whatever its script
NormalizeResultUnchecked(resp) ==
    IF resp = None \/ StripQuotes(Strip(resp)) = "" THEN Strip(orig_query)
    ELSE StripQuotes(Strip(resp))
NormalizeResult(resp) ==
    LET s == Strip(orig_query)
        out == IF resp = None THEN "" ELSE StripQuotes(Strip(resp))
    IN  IF resp = None THEN s
        ELSE IF out # "" /\ ~_contains_non_english_script(out) THEN out ELSE s

NormalizeReply ==
    /\ pc = "normalizing_wait"
    /\ \E resp \in TranslationOutcomes :
          /\ reply' = <<resp>>
          /\ user_query' = NormalizeResult(resp)
    /\ pc' = "stage1"
    /\ stages' = Append(stages, "Stage1")
    /\ UNCHANGED <<worker, disk, title, posted, exchange, stage2_locals, fn, args, ret, entry, council, title_generator, chairman_down, orig_query, sent,
                   norm_to, s1, stage1_results, s2, stage2_results, label_to_model,
                   aggregate_rankings, aggregate_scores, synth_calls, synth,
                   stage3_result, returned, raised>>

----------------------------------------------------------------------------
(* worker_client.query_workers_parallel_full and stage1_collect_responses  *)

\* lines 124-136 of worker_client.py: one worker_chat_full task per listed
\* worker, all started by asyncio.gather
Stage1Broadcast ==
    /\ pc = "stage1"
    /\ s1' = [i \in Positions |-> "pending"]
    /\ sent' = Issue(sent, "s1", Positions)
    /\ pc' = "stage1_wait"
    /\ UNCHANGED <<worker, disk, reply, title, posted, exchange, stage2_locals, fn, args, ret, entry, council, title_generator, chairman_down, orig_query,
                   user_query, stages, norm_to, stage1_results, s2, stage2_results,
                   label_to_model, aggregate_rankings, aggregate_scores, synth_calls,
                   synth, stage3_result, returned, raised>>

\* worker_chat_full: the call of one task ends with a reply or with None
\* (every exception is caught); the tasks end in any order
Stage1Reply(i) ==
    /\ pc = "stage1_wait"
    /\ s1[i] = "pending"
    /\ \E resp \in Outcomes : s1' = [s1 EXCEPT ![i] = resp]
    /\ UNCHANGED <<worker, disk, reply, title, posted, exchange, stage2_locals, fn, args, ret, entry, council, title_generator, chairman_down, orig_query,
                   user_query, pc, stages, sent, norm_to, stage1_results, s2,
                   stage2_results, label_to_model, aggregate_rankings,
                   aggregate_scores, synth_calls, synth, stage3_result, returned,
                   raised>>

\* worker_client.py line 137: {w["name"]: r for w, r in zip(workers, results)};
\* a repeated name keeps the reply of its last endpoint.  responses.get(name)
ResponsesGet(replies, name) ==
    LET hits == {i \in DOMAIN replies : council[i] = name}
    IN  IF hits = {} THEN None
        ELSE replies[CHOOSE i \in hits : \A j \in hits : j <= i]

\* council.py lines 155-169: one entry per council worker whose reply is
\* not None, in council order
RECURSIVE Stage1Entries(_, _)
Stage1Entries(replies, i) ==
    IF i > Len(council) THEN <<>>
    ELSE LET resp == ResponsesGet(replies, council[i])
         IN  (IF resp # None
                THEN <<[model |-> council[i], response |-> resp,
                        rewrite_applied |-> FALSE]>>
                ELSE <<>>) \o Stage1Entries(replies, i + 1)

\* lines 165-167 read resp.prompt_tokens, resp.completion_tokens and
\* resp.total_tokens of the first reply that is not None
\* fault variant: the token fields are read before the None test
Stage1RaisesOnNone(replies) == ~ChatResponseHasTokenFields
Stage1Raises(replies) ==
    /\ ~ChatResponseHasTokenFields
    /\ \E i \in Positions : ResponsesGet(replies, council[i]) # None

\* the error bundle of run_full_council, lines 750-755
ErrorBundle ==
    [stage1 |-> <<>>, stage2 |-> <<>>,
     stage3 |-> [model |-> "error", error |-> TRUE,
                 error_type |-> "stage1_no_responses"],
     metadata |-> <<>>]

\* gather has returned; the result list is built (lines 155-169), the
\* rewrite pass is skipped for an empty list (line 206), and
\* run_full_council tests the list (line 749)
Stage1Collect ==
    /\ pc = "stage1_wait"
    /\ \A i \in Positions : s1[i] # "pending"
    /\ IF Stage1Raises(s1)
         THEN /\ raised' = "AttributeError"
              /\ pc' = "raised"
              /\ UNCHANGED <<stage1_results, returned, stages>>
         ELSE LET list == Stage1Entries(s1, 1)
              IN  /\ stage1_results' = list
                  /\ raised' = raised
                  /\ IF list = <<>>
                       THEN /\ returned' = <<ErrorBundle>>
                            /\ pc' = "failed"
                            /\ stages' = Append(stages, "Failed")
                       ELSE /\ returned' = returned
                            /\ pc' = "stage1_rewrite"
                            /\ stages' = stages
    /\ UNCHANGED <<worker, disk, reply, title, posted, exchange, stage2_locals, fn, args, ret, entry, council, title_generator, chairman_down, orig_query,
                   user_query, sent, norm_to, s1, s2, stage2_results, label_to_model,
                   aggregate_rankings, aggregate_scores, synth_calls, synth,
                   stage3_result>>

----------------------------------------------------------------------------
(* Reviewer texts.  A text is the sequence of the spans the parsers tell   *)
(* apart: the section markers, numbered ranking items, plain mentions of a *)
(* label, score lines, and anything else.                                  *)

Tok(kind, letter) ==
    [kind |-> kind, letter |-> letter, accuracy |-> 0, insight |-> 0, total |-> 0]

\* the literal "FINAL RANKING:"
Marker == Tok("FINAL RANKING:", "")
\* the literal "SCORES:"
ScoresHeader == Tok("SCORES:", "")
\* Latin-script text with no marker and no "Response <letter>"
Prose == Tok("prose", "")
\* text with a character of a non-Latin script
NonLatin == Tok("non-latin", "")
\* "<int>. Response <letter>"
Numbered(letter) == Tok("numbered", letter)
\* "Response <letter>" outside a numbered item and a score line
Mention(letter) == Tok("mention", letter)
\* "Response <letter> | accuracy=<a> | insight=<i> | total=<t>"
ScoreLine(letter, a, i, t) ==
    [kind |-> "score", letter |-> letter, accuracy |-> a, insight |-> i, total |-> t]

\* _contains_non_english_script on a reviewer text
ContainsNonEnglishScript(text) == \E k \in 1..Len(text) : text[k] = NonLatin

\* index of the first span of the text that is tok (0 if none)
Find(text, tok) ==
    IF \E k \in 1..Len(text) : text[k] = tok
      THEN CHOOSE k \in 1..Len(text) :
              text[k] = tok /\ \A j \in 1..(k - 1) : text[j] # tok
      ELSE 0

\* text[i:]
From(text, i) == SubSeq(text, i, Len(text))

\* re.findall over a text: the labels of the spans of the given kinds, in order
RECURSIVE FindAll(_, _)
FindAll(text, kinds) ==
    IF text = <<>> THEN <<>>
    ELSE (IF Head(text).kind \in kinds
            THEN <<ResponseLabel(Head(text).letter)>> ELSE <<>>)
         \o FindAll(Tail(text), kinds)

\* r'\d+\.\s*Response [A-Z]'
NumberedPattern == {"numbered"}
\* r'Response [A-Z]': it also matches inside a numbered item and a score line
LabelPattern == {"numbered", "mention", "score"}

\* lines 464-466: ranking_text.split("FINAL RANKING:")[1], the text between
\* the first marker and the next one (or the end)
RankingSection(ranking_text) ==
    LET rest == From(ranking_text, Find(ranking_text, Marker) + 1)
    IN  IF Find(rest, Marker) = 0 THEN rest
        ELSE SubSeq(rest, 1, Find(rest, Marker) - 1)

\* lines 449-480
\* fault variant: the numbered items are not preferred
parse_ranking_unnumbered(ranking_text) ==
    IF Find(ranking_text, Marker) # 0
      THEN FindAll(RankingSection(ranking_text), LabelPattern)
      ELSE FindAll(ranking_text, LabelPattern)
parse_ranking_from_text(ranking_text) ==
    IF Find(ranking_text, Marker) # 0
      THEN LET ranking_section == RankingSection(ranking_text)
               numbered_matches == FindAll(ranking_section, NumberedPattern)
           IN  IF numbered_matches # <<>> THEN numbered_matches
               ELSE FindAll(ranking_section, LabelPattern)
      ELSE FindAll(ranking_text, LabelPattern)

\* lines 518-521: max(0, min(hi, n))
Clamp(n, hi) == IF n < 0 THEN 0 ELSE IF n > hi THEN hi ELSE n

\* the same literals in lower case: re.IGNORECASE makes the score parser
\* accept them, the ranking parser ("FINAL RANKING:" in ranking_text,
\* r'Response [A-Z]') does not
MarkerLower == Tok("final ranking:", "")
ScoresHeaderLower == Tok("scores:", "")
\* "response <letter> | accuracy: <a>/10 | insight: <i>/10 | total: <t>/20"
ScoreLineLower(letter, a, i, t) ==
    [kind |-> "score (lower case)", letter |-> letter,
     accuracy |-> a, insight |-> i, total |-> t]

\* r"\bSCORES:\s*" with re.IGNORECASE
ScoresHeaderPattern == {ScoresHeader, ScoresHeaderLower}
\* r"\bFINAL RANKING:\s*" with re.IGNORECASE
FinalHeaderPattern == {Marker, MarkerLower}
\* the score-line pattern of lines 500-503, with re.IGNORECASE
ScorePattern == {"score", "score (lower case)"}

\* re.search: index of the first span of the text that is in toks (0 if none)
Search(text, toks) ==
    IF \E k \in 1..Len(text) : text[k] \in toks
      THEN CHOOSE k \in 1..Len(text) :
              text[k] \in toks /\ \A j \in 1..(k - 1) : text[j] \notin toks
      ELSE 0

\* lines 491-492: the text after the first "SCORES:", or all of it
AfterScoresHeader(text) ==
    IF Search(text, ScoresHeaderPattern) # 0
      THEN From(text, Search(text, ScoresHeaderPattern) + 1)
      ELSE text

\* fault variant: the text is not cut at "FINAL RANKING:"
BeforeMarkerUncut(after) == after
\* lines 494-496: cut at the first "FINAL RANKING:" that follows
BeforeMarker(after) ==
    IF Search(after, FinalHeaderPattern) # 0
      THEN SubSeq(after, 1, Search(after, FinalHeaderPattern) - 1)
      ELSE after

\* line 507: f"Response {m.group(1).upper()}"; the letter of a span is kept
\* in upper case
LabelOfLine(line) == ResponseLabel(line.letter)

\* lines 508-509: the first score line of the label (keep first occurrence)
FirstScoreLine(region, l) ==
    region[CHOOSE k \in 1..Len(region) :
              /\ region[k].kind \in ScorePattern /\ LabelOfLine(region[k]) = l
              /\ \A j \in 1..(k - 1) :
                    ~(region[j].kind \in ScorePattern /\ LabelOfLine(region[j]) = l)]

\* lines 512-529
\* fault variant: the reported total is stored as the total
ScoreOfLineReported(line) ==
    [accuracy |-> Clamp(line.accuracy, 10),
     insight |-> Clamp(line.insight, 10),
     total |-> line.total,
     total_reported |-> line.total,
     total_ok |-> (line.total = Clamp(line.accuracy, 10) + Clamp(line.insight, 10))]
ScoreOfLine(line) ==
    [accuracy |-> Clamp(line.accuracy, 10),
     insight |-> Clamp(line.insight, 10),
     total |-> Clamp(Clamp(line.accuracy, 10) + Clamp(line.insight, 10), 20),
     total_reported |-> line.total,
     total_ok |-> (line.total = Clamp(line.accuracy, 10) + Clamp(line.insight, 10))]

\* lines 505-531
ScoresOfRegion(region) ==
    [l \in {LabelOfLine(region[k]) :
               k \in {k \in 1..Len(region) : region[k].kind \in ScorePattern}}
       |-> ScoreOfLine(FirstScoreLine(region, l))]

\* lines 483-531: the score lines between "SCORES:" (if any) and the next
\* "FINAL RANKING:" (if any); the first line of a label wins
parse_scores_from_text(ranking_text) ==
    ScoresOfRegion(BeforeMarker(AfterScoresHeader(ranking_text)))

----------------------------------------------------------------------------
(* _sanitize_parsed_ranking                                                *)

\* lines 120-123 and 125-128: the labels of seq that are valid and not yet
\* seen, each once, in order
RECURSIVE KeepFirst(_, _, _)
KeepFirst(seq, valid_set, seen) ==
    IF seq = <<>> THEN <<>>
    ELSE IF Head(seq) \in valid_set /\ Head(seq) \notin seen
           THEN <<Head(seq)>> \o KeepFirst(Tail(seq), valid_set, seen \cup {Head(seq)})
           ELSE KeepFirst(Tail(seq), valid_set, seen)

\* lines 106-130 (and its copy in storage.py, lines 172-188)
\* fault variant: the missing labels are not appended
_sanitize_without_backfill(parsed, valid_labels) ==
    KeepFirst(parsed, Range(valid_labels), {})
\* fault variant: every valid label is appended, seen or not
_sanitize_appending_all(parsed, valid_labels) ==
    KeepFirst(parsed, Range(valid_labels), {}) \o valid_labels
_sanitize_parsed_ranking(parsed, valid_labels) ==
    LET cleaned == KeepFirst(parsed, Range(valid_labels), {})
    IN  cleaned \o KeepFirst(valid_labels, Range(valid_labels), Range(cleaned))

----------------------------------------------------------------------------
(* stage2_collect_rankings                                                 *)

\* line 226: labels = [chr(65 + i) for i in range(len(stage1_results))]
Labels(stage1) == [i \in 1..Len(stage1) |-> Chr65(i - 1)]

\* lines 229-232: {f"Response {label}": result['model'] for label, result in zip(...)}
LabelToModel(stage1) ==
    [l \in {ResponseLabel(Labels(stage1)[i]) : i \in 1..Len(stage1)} |->
        stage1[CHOOSE i \in 1..Len(stage1) : ResponseLabel(Labels(stage1)[i]) = l].model]

\* lines 239-243 and 250: model_to_label.get(worker_name); the dict
\* comprehension keeps, for a repeated model name, its last label
ModelToLabelGet(stage1, worker_name) ==
    LET hits == {i \in 1..Len(stage1) : stage1[i].model = worker_name}
    IN  IF hits = {} THEN None
        ELSE ResponseLabel(Labels(stage1)[CHOOSE i \in hits : \A j \in hits : j <= i])

\* lines 252-256: the (label, result) pairs shown to the reviewer
\* fault variant: the reviewer's own response is not filtered out
ShownIndexesWithSelf(stage1, excluded_label) == 1..Len(stage1)
ShownIndexes(stage1, excluded_label) ==
    {i \in 1..Len(stage1) : ResponseLabel(Labels(stage1)[i]) # excluded_label}

RECURSIVE IndexList(_, _, _)
IndexList(S, i, n) ==
    IF i > n THEN <<>>
    ELSE (IF i \in S THEN <<i>> ELSE <<>>) \o IndexList(S, i + 1, n)

\* lines 245-314: (prompt, reviewed_labels, excluded_label); the prompt is
\* kept as the list of "Response X:\n<text>" blocks it shows
_build_prompt_for_worker(stage1, worker_name) ==
    LET excluded_label == ModelToLabelGet(stage1, worker_name)
        shown == IndexList(ShownIndexes(stage1, excluded_label), 1, Len(stage1))
    IN  [prompt |-> [k \in 1..Len(shown) |->
                        [label |-> ResponseLabel(Labels(stage1)[shown[k]]),
                         response |-> stage1[shown[k]].response]],
         reviewed_labels |-> [k \in 1..Len(shown) |->
                                 ResponseLabel(Labels(stage1)[shown[k]])],
         excluded_label |-> excluded_label]

IdleTask ==
    [st |-> "idle", resp |-> None, content |-> <<>>, prompt |-> <<>>,
     reviewed_labels |-> <<>>, excluded_label |-> None]

\* reviewer texts of the review calls: empty; non-Latin script, without
\* and with a ranking; a ranking with a repeated and an unknown label;
\* score lines followed by a ranking that names one label only
ReviewTexts ==
    { <<>>,
      <<NonLatin>>,
      <<NonLatin, Marker, Numbered("A")>>,
      <<Marker, Numbered("B"), Numbered("A"), Numbered("B"), Numbered("Z")>>,
      <<ScoresHeader, ScoreLine("A", 8, 6, 14), ScoreLine("B", 12, 3, 9),
        Marker, Numbered("C")>> }

\* outcome of the worker_chat_full call of a review: None or a ChatResponse
ReviewReplies ==
    {[resp |-> None, content |-> <<>>]}
    \cup {[resp |-> "ChatResponse", content |-> t] : t \in ReviewTexts}

\* line 316 and line 343: the workers _rank_one is started for
\* fault variant: only workers with a Stage-1 result are asked
ReviewersWithStage1Only(stage1) ==
    {i \in Positions : \E k \in 1..Len(stage1) : stage1[k].model = council[i]}
Reviewers(stage1) == Positions

\* line 235: if len(stage1_results) < 2
\* fault variant: the guard is off by one
TooFewToRankBelowOne(stage1) == Len(stage1) < 1
TooFewToRank(stage1) == Len(stage1) < 2

\* where control goes when a stage function returns
AfterStage2 == IF entry = "run_full_council" THEN "aggregating" ELSE "done"

\* lines 225-236: the label map; fewer than two results end the stage
Stage2Skip ==
    /\ pc = "stage2"
    /\ TooFewToRank(stage1_results)
    /\ label_to_model' = LabelToModel(stage1_results)
    /\ stage2_results' = <<>>
    /\ pc' = AfterStage2
    /\ UNCHANGED <<worker, disk, reply, title, posted, exchange, stage2_locals, fn, args, ret, entry, council, title_generator, chairman_down, orig_query,
                   user_query, stages, sent, norm_to, s1, stage1_results, s2,
                   aggregate_rankings, aggregate_scores, synth_calls, synth,
                   stage3_result, returned, raised>>

\* lines 238-343: every _rank_one task builds its prompt and sends its
\* review call when asyncio.gather starts it
Stage2Start ==
    /\ pc = "stage2"
    /\ ~TooFewToRank(stage1_results)
    /\ label_to_model' = LabelToModel(stage1_results)
    /\ s2' = [i \in Positions |->
                IF i \in Reviewers(stage1_results)
                  THEN LET b == _build_prompt_for_worker(stage1_results, council[i])
                       IN  [st |-> "called", resp |-> None, content |-> <<>>,
                            prompt |-> b.prompt,
                            reviewed_labels |-> b.reviewed_labels,
                            excluded_label |-> b.excluded_label]
                  ELSE IdleTask]
    /\ sent' = Issue(sent, "s2", Reviewers(stage1_results))
    /\ pc' = "stage2_wait"
    /\ UNCHANGED <<worker, disk, reply, title, posted, exchange, stage2_locals, fn, args, ret, entry, council, title_generator, chairman_down, orig_query,
                   user_query, stages, norm_to, s1, stage1_results, stage2_results,
                   aggregate_rankings, aggregate_scores, synth_calls, synth,
                   stage3_result, returned, raised>>

\* line 329: resp is not None and _contains_non_english_script(resp.content)
\* fault variant: every reply is sent back for a rewrite
NeedsRewriteAnyReply(r) == r.resp # None
NeedsRewrite(r) == r.resp # None /\ ContainsNonEnglishScript(r.content)

\* lines 320-338: the review call ends; a reply with non-Latin script is
\* followed by one rewrite call to the same worker
Stage2Reply(i) ==
    /\ pc = "stage2_wait"
    /\ s2[i].st = "called"
    /\ \E r \in ReviewReplies :
          IF NeedsRewrite(r)
            THEN /\ s2' = [s2 EXCEPT ![i].st = "rewriting", ![i].resp = r.resp,
                                     ![i].content = r.content]
                 /\ sent' = Issue(sent, "s2rw", {i})
            ELSE /\ s2' = [s2 EXCEPT ![i].st = "done", ![i].resp = r.resp,
                                     ![i].content = r.content]
                 /\ sent' = sent
    /\ UNCHANGED <<worker, disk, reply, title, posted, exchange, stage2_locals, fn, args, ret, entry, council, title_generator, chairman_down, orig_query,
                   user_query, pc, stages, norm_to, s1, stage1_results,
                   stage2_results, label_to_model, aggregate_rankings,
                   aggregate_scores, synth_calls, synth, stage3_result, returned,
                   raised>>

\* lines 339-341: if rewrite is not None and rewrite.content: resp = rewrite
Stage2RewriteReply(i) ==
    /\ pc = "stage2_wait"
    /\ s2[i].st = "rewriting"
    /\ \E rewrite \in ReviewReplies :
          s2' = [s2 EXCEPT ![i].st = "done",
                           ![i].content = IF rewrite.resp # None /\ rewrite.content # <<>>
                                            THEN rewrite.content ELSE @]
    /\ UNCHANGED <<worker, disk, reply, title, posted, exchange, stage2_locals, fn, args, ret, entry, council, title_generator, chairman_down, orig_query,
                   user_query, pc, stages, sent, norm_to, s1, stage1_results,
                   stage2_results, label_to_model, aggregate_rankings,
                   aggregate_scores, synth_calls, synth, stage3_result, returned,
                   raised>>

\* line 355: {k: v for k, v in parsed_scores_all.items() if k in set(reviewed_labels)}
\* fault variant: the scores are not restricted to the labels shown
ScoresOfAnyLabel(parsed_scores_all, reviewed_labels) == parsed_scores_all
ScoresOfReviewed(parsed_scores_all, reviewed_labels) ==
    [k \in DOMAIN parsed_scores_all \cap Range(reviewed_labels) |-> parsed_scores_all[k]]

\* lines 349-355: content, parsed and parsed_scores of one result of gather
Stage2Parsed(task) ==
    [content |-> task.content,
     parsed |-> _sanitize_parsed_ranking(parse_ranking_from_text(task.content),
                                         task.reviewed_labels),
     parsed_scores |-> ScoresOfReviewed(parse_scores_from_text(task.content),
                                        task.reviewed_labels)]

\* lines 356-371: the entry of one result
Stage2EntryOf(name, task, p) ==
    [model |-> name, ranking |-> p.content, parsed_ranking |-> p.parsed,
     parsed_scores |-> p.parsed_scores, reviewed_labels |-> task.reviewed_labels,
     excluded_label |-> task.excluded_label]

\* lines 345-371: one entry per task whose reply is not None, in council order
RECURSIVE Stage2Entries(_, _)
Stage2Entries(tasks, i) ==
    IF i > Len(council) THEN <<>>
    ELSE (IF tasks[i].st = "done" /\ tasks[i].resp # None
            THEN <<Stage2EntryOf(council[i], tasks[i], Stage2Parsed(tasks[i]))>>
            ELSE <<>>) \o Stage2Entries(tasks, i + 1)

\* the first result of gather whose reply is not None
FirstReplied(tasks) ==
    CHOOSE i \in Positions :
        /\ tasks[i].st = "done" /\ tasks[i].resp # None
        /\ \A j \in 1..(i - 1) : tasks[j].st # "done" \/ tasks[j].resp = None

\* the locals of the loop of lines 346-371 in the iteration that raises
LocalsOf(name, task, p) ==
    [w |-> name, content |-> p.content, parsed |-> p.parsed,
     parsed_scores |-> p.parsed_scores, reviewed_labels |-> task.reviewed_labels,
     excluded_label |-> task.excluded_label]

Stage2LocalsAtRaise(tasks) ==
    LocalsOf(council[FirstReplied(tasks)], tasks[FirstReplied(tasks)],
             Stage2Parsed(tasks[FirstReplied(tasks)]))

\* lines 364-366 read resp.prompt_tokens, resp.completion_tokens and
\* resp.total_tokens of the first reply that is not None
Stage2Raises(tasks) ==
    /\ ~ChatResponseHasTokenFields
    /\ \E i \in Positions : tasks[i].st = "done" /\ tasks[i].resp # None

\* line 343 has returned: every task is done
Stage2Collect ==
    /\ pc = "stage2_wait"
    /\ \A i \in Positions : s2[i].st \in {"idle", "done"}
    /\ IF Stage2Raises(s2)
         THEN /\ raised' = "AttributeError"
              /\ pc' = "raised"
              /\ stage2_results' = stage2_results
              /\ stage2_locals' = <<Stage2LocalsAtRaise(s2)>>
         ELSE /\ stage2_results' = Stage2Entries(s2, 1)
              /\ pc' = AfterStage2
              /\ raised' = raised
              /\ stage2_locals' = stage2_locals
    /\ UNCHANGED <<worker, disk, reply, title, posted, exchange, fn, args, ret, entry, council, title_generator, chairman_down, orig_query,
                   user_query, stages, sent, norm_to, s1, stage1_results, s2,
                   label_to_model, aggregate_rankings, aggregate_scores,
                   synth_calls, synth, stage3_result, returned>>

----------------------------------------------------------------------------
(* stage3_synthesize_final                                                 *)

\* lines 403-409
SynthesisError ==
    [model |-> ChairmanName, response |-> "Error: chairman worker unreachable",
     error |-> TRUE, error_type |-> "chairman_unreachable", rewrite_applied |-> FALSE]

\* lines 429-437 and 439-446
SynthesisResult(text, rewrite_applied) ==
    [model |-> ChairmanName, response |-> text, error |-> FALSE, error_type |-> None,
     rewrite_applied |-> rewrite_applied]

\* lines 433-435 and 443-445 read the token fields of the reply
Stage3Raises == ~SynthesizeResponseHasTokenFields

\* run_full_council lines 771-778
Bundle(result) ==
    [stage1 |-> stage1_results, stage2 |-> stage2_results, stage3 |-> result,
     metadata |-> [label_to_model |-> label_to_model,
                   aggregate_rankings |-> aggregate_rankings,
                   aggregate_scores |-> aggregate_scores]]

\* stage3_synthesize_final returns `result` (to run_full_council, which
\* then returns the bundle)
Stage3Return(result) ==
    /\ stage3_result' = <<result>>
    /\ pc' = "done"
    /\ raised' = raised
    /\ IF entry = "run_full_council"
         THEN /\ returned' = <<Bundle(result)>>
              /\ stages' = Append(stages, "Done")
         ELSE UNCHANGED <<returned, stages>>

Stage3Raise ==
    /\ raised' = "AttributeError"
    /\ pc' = "raised"
    /\ UNCHANGED <<stage3_result, returned, stages>>

\* lines 392-401: the synthesis call, with the query and the stage data
Stage3Call ==
    /\ pc = "stage3"
    /\ synth_calls' = <<[user_query |-> user_query, stage1 |-> stage1_results,
                         stage2 |-> stage2_results, draft |-> None]>>
    /\ pc' = "stage3_wait"
    /\ UNCHANGED <<worker, disk, reply, title, posted, exchange, stage2_locals, fn, args, ret, entry, council, title_generator, chairman_down, orig_query,
                   user_query, stages, sent, norm_to, s1, stage1_results, s2,
                   stage2_results, label_to_model, aggregate_rankings,
                   aggregate_scores, synth, stage3_result, returned, raised>>

\* an unreachable chairman answers no call
ChairmanOutcomes == IF chairman_down THEN {None} ELSE Outcomes

\* lines 403-427 and 439-446
Stage3Reply ==
    /\ pc = "stage3_wait"
    /\ \E resp \in ChairmanOutcomes :
          IF resp = None
            THEN /\ Stage3Return(SynthesisError)
                 /\ UNCHANGED <<synth, synth_calls>>
            ELSE IF _contains_non_english_script(resp)
              THEN /\ synth' = resp
                   /\ synth_calls' = Append(synth_calls,
                          [user_query |-> "Rewrite the DRAFT ANSWER", stage1 |-> <<>>,
                           stage2 |-> <<>>, draft |-> resp])
                   /\ pc' = "stage3_rewrite_wait"
                   /\ UNCHANGED <<stage3_result, returned, raised, stages>>
              ELSE /\ synth' = resp
                   /\ synth_calls' = synth_calls
                   /\ IF Stage3Raises THEN Stage3Raise
                      ELSE Stage3Return(SynthesisResult(resp, FALSE))
    /\ UNCHANGED <<worker, disk, reply, title, posted, exchange, stage2_locals, fn, args, ret, entry, council, title_generator, chairman_down, orig_query,
                   user_query, sent, norm_to, s1, stage1_results, s2,
                   stage2_results, label_to_model, aggregate_rankings,
                   aggregate_scores>>

\* lines 428-446: the rewrite is returned when it is not None, non-empty
\* and Latin-only; otherwise the first reply is
Stage3RewriteReply ==
    /\ pc = "stage3_rewrite_wait"
    /\ \E rewrite \in ChairmanOutcomes :
          IF Stage3Raises THEN Stage3Raise
          ELSE IF rewrite # None /\ rewrite # ""
                    /\ ~_contains_non_english_script(rewrite)
                 THEN Stage3Return(SynthesisResult(rewrite, TRUE))
                 ELSE Stage3Return(SynthesisResult(synth, FALSE))
    /\ UNCHANGED <<worker, disk, reply, title, posted, exchange, stage2_locals, fn, args, ret, entry, council, title_generator, chairman_down, orig_query,
                   user_query, sent, norm_to, s1, stage1_results, s2,
                   stage2_results, label_to_model, aggregate_rankings,
                   aggregate_scores, synth_calls, synth>>

----------------------------------------------------------------------------
(* Invocations.                                                            *)

\* user queries: empty, blank, Latin-only, with non-Latin script (bare and
\* with surrounding blanks)
Queries == {"", " ", "en", "zh", " zh "}

\* title_generator: unset, a council member, or a name that is no member
TitleGenerators == {None, Names[2], "nobody"}

\* the Stage-1 lists stage1_collect_responses builds for the council
Stage1Lists == {Stage1Entries(r, 1) : r \in [Positions -> {None, "en"}]}

InitCommon ==
    /\ sent = NoCalls
    /\ norm_to = 0
    /\ s1 = [i \in Positions |-> "idle"]
    /\ s2 = [i \in Positions |-> IdleTask]
    /\ label_to_model = <<>>
    /\ aggregate_rankings = <<>>
    /\ aggregate_scores = <<>>
    /\ synth_calls = <<>>
    /\ synth = None
    /\ stage3_result = <<>>
    /\ returned = <<>>
    /\ raised = ""
    /\ stage2_locals = <<>>
    /\ fn = ""
    /\ args = <<>>
    /\ ret = <<>>
    /\ posted = <<>>
    /\ exchange = <<>>
    /\ reply = <<>>
    /\ title = <<>>
    /\ worker = <<>>
    /\ disk = <<>>

\* run_full_council(user_query)
InitRun ==
    /\ entry = "run_full_council"
    /\ council \in Topologies
    /\ title_generator \in TitleGenerators
    /\ chairman_down \in BOOLEAN
    /\ orig_query \in Queries
    /\ user_query = orig_query
    /\ pc = "normalizing"
    /\ stages = <<"Normalizing">>
    /\ stage1_results = <<>>
    /\ stage2_results = <<>>
    /\ InitCommon

\* stage2_collect_rankings(user_query, stage1_results)
InitStage2 ==
    /\ entry = "stage2_collect_rankings"
    /\ council \in Topologies
    /\ title_generator = None
    /\ chairman_down = FALSE
    /\ orig_query = "en"
    /\ user_query = orig_query
    /\ pc = "stage2"
    /\ stages = <<"Stage2">>
    /\ stage1_results \in Stage1Lists
    /\ stage2_results = <<>>
    /\ InitCommon

\* stage3_synthesize_final(user_query, stage1_results, stage2_results)
InitStage3 ==
    /\ entry = "stage3_synthesize_final"
    /\ council \in Topologies
    /\ title_generator = None
    /\ chairman_down \in BOOLEAN
    /\ orig_query \in Queries
    /\ user_query = orig_query
    /\ pc = "stage3"
    /\ stages = <<"Stage3">>
    /\ stage1_results \in Stage1Lists
    /\ stage2_results = <<>>
    /\ InitCommon

Init == InitRun \/ InitStage2 \/ InitStage3

Next ==
    \/ NormalizeSkip
    \/ NormalizeCall
    \/ NormalizeReply
    \/ Stage1Broadcast
    \/ \E i \in Positions : Stage1Reply(i)
    \/ Stage1Collect
    \/ Stage2Skip
    \/ Stage2Start
    \/ \E i \in Positions : Stage2Reply(i)
    \/ \E i \in Positions : Stage2RewriteReply(i)
    \/ Stage2Collect
    \/ Stage3Call
    \/ Stage3Reply
    \/ Stage3RewriteReply

Spec == Init /\ [][Next]_vars

----------------------------------------------------------------------------
(* The pure functions of council.py, called on their own (storage.py calls *)
(* them when it upgrades a stored conversation).                           *)

\* longest label list passed to _sanitize_parsed_ranking
MaxParsed == 3

\* no pipeline operation is running
NoPipeline ==
    /\ entry = ""
    /\ council = <<>>
    /\ title_generator = None
    /\ chairman_down = FALSE
    /\ orig_query = ""
    /\ user_query = ""
    /\ pc = "done"
    /\ stages = <<>>
    /\ stage1_results = <<>>
    /\ stage2_results = <<>>
    /\ sent = NoCalls
    /\ norm_to = 0
    /\ s1 = <<>>
    /\ s2 = <<>>
    /\ label_to_model = <<>>
    /\ aggregate_rankings = <<>>
    /\ aggregate_scores = <<>>
    /\ synth_calls = <<>>
    /\ synth = None
    /\ stage3_result = <<>>
    /\ returned = <<>>
    /\ raised = ""
    /\ stage2_locals = <<>>
    /\ posted = <<>>
    /\ exchange = <<>>
    /\ reply = <<>>
    /\ title = <<>>

pipeline_vars ==
    <<entry, council, title_generator, chairman_down, orig_query, user_query, pc,
      stages, sent, norm_to, s1, stage1_results, s2, stage2_results,
      label_to_model, aggregate_rankings, aggregate_scores, synth_calls, synth,
      stage3_result, returned, raised, stage2_locals, posted, exchange, reply,
      title>>

SeqsUpTo(S, n) == UNION {[1..k -> S] : k \in 0..n}

\* labels a parsed ranking can hold: those of a run, and one no run assigned
ParsedLabels == {ResponseLabel(l) : l \in {"A", "B", "C", "Z"}}
\* labels of valid_labels lists
ValidLabels == {ResponseLabel(l) : l \in {"A", "B", "C"}}

\* _sanitize_parsed_ranking(parsed, valid_labels)
InitSanitize ==
    /\ fn = "_sanitize_parsed_ranking"
    /\ args \in [parsed : SeqsUpTo(ParsedLabels, MaxParsed),
                 valid_labels : SeqsUpTo(ValidLabels, MaxParsed)]
    /\ ret = <<>>
    /\ NoPipeline
    /\ worker = <<>>
    /\ disk = <<>>

\* the call returns
SanitizeCall ==
    /\ fn = "_sanitize_parsed_ranking"
    /\ ret = <<>>
    /\ ret' = <<_sanitize_parsed_ranking(args.parsed, args.valid_labels)>>
    /\ UNCHANGED <<fn, args, worker, disk, pipeline_vars>>

\* the result is sanitised again with the same valid_labels
SanitizeAgain ==
    /\ fn = "_sanitize_parsed_ranking"
    /\ Len(ret) = 1
    /\ ret' = Append(ret, _sanitize_parsed_ranking(ret[1], args.valid_labels))
    /\ UNCHANGED <<fn, args, worker, disk, pipeline_vars>>

NextSanitize == SanitizeCall \/ SanitizeAgain

SanitizeSpec == InitSanitize /\ [][NextSanitize]_vars

----------------------------------------------------------------------------
(* calculate_aggregate_rankings and calculate_aggregate_scores.  A number  *)
(* with two decimals (average_rank, average_total, ...) is kept as an      *)
(* integer count of hundredths: 1.5 is 150.                                *)

\* most Stage-2 entries passed to an aggregator
MaxReviewers == 3

RECURSIVE Sum(_)
Sum(seq) == IF seq = <<>> THEN 0 ELSE Head(seq) + Sum(Tail(seq))

\* round(num / den, 2), in hundredths; a quotient that lies exactly between
\* two hundredths needs den to be a multiple of 8
Round2(num, den) ==
    LET q == (100 * num) \div den
        r == (100 * num) % den
    IN  IF 2 * r < den THEN q
        ELSE IF 2 * r > den THEN q + 1
        ELSE IF q % 2 = 0 THEN q ELSE q + 1

\* lines 555-558: the parsed_ranking of the entry, or the ranking text
\* parsed again when it is missing or empty
ParsedRankingOf(ranking) ==
    IF ranking.parsed_ranking = <<>>
      THEN parse_ranking_from_text(ranking.ranking)
      ELSE ranking.parsed_ranking

\* lines 562-566 and 612-616
\* fault variant: reviewed_labels is ignored
ValidSetOfAllLabels(e2, ltm) == DOMAIN ltm
ValidSetOf(e2, ltm) ==
    IF e2.reviewed_labels # <<>>
      THEN {x \in Range(e2.reviewed_labels) : x \in DOMAIN ltm}
      ELSE DOMAIN ltm

\* lines 570-576; nothing is appended
CleanedOf(ranking, ltm) ==
    KeepFirst(ParsedRankingOf(ranking), ValidSetOf(ranking, ltm), {})

\* lines 578-581: the appends of one reviewer's cleaned ranking
VotesOf(cleaned, ltm) ==
    [k \in 1..Len(cleaned) |-> [model |-> ltm[cleaned[k]], position |-> k]]

\* lines 554-581: the (model, position) pairs in the order they are appended
\* to model_positions
RECURSIVE Votes(_, _)
Votes(stage2, ltm) ==
    IF stage2 = <<>> THEN <<>>
    ELSE VotesOf(CleanedOf(Head(stage2), ltm), ltm) \o Votes(Tail(stage2), ltm)

Models(appends) == [k \in 1..Len(appends) |-> appends[k].model]

\* key order of a dict filled by the given appends: first insertion first
KeyOrder(appends) == KeepFirst(Models(appends), Range(Models(appends)), {})

\* the appends made for one model
Of(appends, m) == SelectSeq(appends, LAMBDA v : v.model = m)

\* k1 < k2 for key tuples of equal length
RECURSIVE LexLess(_, _)
LexLess(k1, k2) ==
    IF k1 = <<>> THEN FALSE
    ELSE IF Head(k1) # Head(k2) THEN Head(k1) < Head(k2)
    ELSE LexLess(Tail(k1), Tail(k2))

\* x put behind the last element of a sorted list whose key is not greater
InsertByKey(before, x) ==
    SubSeq(before, 1, Cardinality({i \in 1..Len(before) : ~LexLess(x.key, before[i].key)}))
    \o <<x>>
    \o SubSeq(before, Cardinality({i \in 1..Len(before) : ~LexLess(x.key, before[i].key)}) + 1,
              Len(before))

\* list.sort(key=...): stable, equal keys keep their order
RECURSIVE SortByKey(_)
SortByKey(pairs) ==
    IF pairs = <<>> THEN <<>>
    ELSE InsertByKey(SortByKey(SubSeq(pairs, 1, Len(pairs) - 1)), pairs[Len(pairs)])

Items(pairs) == [k \in 1..Len(pairs) |-> pairs[k].item]

\* position of a worker name in Python's string order
NameOrder(model) == CHOOSE i \in 1..Len(Names) : Names[i] = model

\* line 595: key=lambda x: x['average_rank']
RankingKey(x) == <<x.average_rank>>

\* lines 586-592: the entry of one model
\* fault variant: positions are counted from 0
RankingEntryFromZero(m, positions) ==
    [model |-> m,
     average_rank |-> Round2(Sum([j \in 1..Len(positions) |-> positions[j].position - 1]),
                             Len(positions)),
     rankings_count |-> Len(positions)]
RankingEntry(m, positions) ==
    [model |-> m,
     average_rank |-> Round2(Sum([j \in 1..Len(positions) |-> positions[j].position]),
                             Len(positions)),
     rankings_count |-> Len(positions)]

\* lines 583-595
RankingsOf(votes, models) ==
    Items(SortByKey([k \in 1..Len(models) |->
                        [key |-> RankingKey(RankingEntry(models[k], Of(votes, models[k]))),
                         item |-> RankingEntry(models[k], Of(votes, models[k]))]]))

\* lines 534-597
calculate_aggregate_rankings(stage2, ltm) ==
    RankingsOf(Votes(stage2, ltm), KeyOrder(Votes(stage2, ltm)))

\* lines 618-620: the parsed_scores of the entry, or the ranking text parsed
\* again when they are missing or empty
ParsedScoresOf(e2) ==
    IF DOMAIN e2.parsed_scores = {}
      THEN parse_scores_from_text(e2.ranking)
      ELSE e2.parsed_scores

\* the labels of a dict as a list (any order: the order only decides the
\* insertion order of sums, which the sort key of line 664 overrides)
RECURSIVE ListOf(_)
ListOf(S) ==
    IF S = {} THEN <<>>
    ELSE <<CHOOSE x \in S : TRUE>> \o ListOf(S \ {CHOOSE x \in S : TRUE})

\* lines 625-645: the scores of one entry that are added to sums
ScoreVotesOf(parsed_scores, counted, ltm) ==
    [k \in 1..Len(counted) |->
        [model |-> ltm[counted[k]],
         acc |-> parsed_scores[counted[k]].accuracy,
         ins |-> parsed_scores[counted[k]].insight,
         total |-> parsed_scores[counted[k]].total]]

\* lines 626-629
CountedLabels(parsed_scores, valid_set, ltm) ==
    ListOf({l \in DOMAIN parsed_scores : l \in valid_set /\ l \in DOMAIN ltm})

\* lines 611-645: the scores added to sums, in order
RECURSIVE ScoreVotes(_, _)
ScoreVotes(stage2, ltm) ==
    IF stage2 = <<>> THEN <<>>
    ELSE ScoreVotesOf(ParsedScoresOf(Head(stage2)),
                      CountedLabels(ParsedScoresOf(Head(stage2)),
                                    ValidSetOf(Head(stage2), ltm), ltm),
                      ltm)
         \o ScoreVotes(Tail(stage2), ltm)

\* line 664: key=lambda x: (-average_total, -average_accuracy, -average_insight, model)
\* fault variant: ascending by average_total
ScoreKeyAscending(x) ==
    <<x.average_total, -x.average_accuracy, -x.average_insight, NameOrder(x.model)>>
ScoreKey(x) ==
    <<-x.average_total, -x.average_accuracy, -x.average_insight, NameOrder(x.model)>>

\* lines 648-660: the entry of one model
ScoreEntry(m, s) ==
    [model |-> m,
     average_accuracy |-> Round2(Sum([j \in 1..Len(s) |-> s[j].acc]), Len(s)),
     average_insight |-> Round2(Sum([j \in 1..Len(s) |-> s[j].ins]), Len(s)),
     average_total |-> Round2(Sum([j \in 1..Len(s) |-> s[j].total]), Len(s)),
     scores_count |-> Len(s)]

\* lines 647-665
ScoresOf(votes, models) ==
    Items(SortByKey([k \in 1..Len(models) |->
                        [key |-> ScoreKey(ScoreEntry(models[k], Of(votes, models[k]))),
                         item |-> ScoreEntry(models[k], Of(votes, models[k]))]]))

\* lines 600-666
calculate_aggregate_scores(stage2, ltm) ==
    ScoresOf(ScoreVotes(stage2, ltm), KeyOrder(ScoreVotes(stage2, ltm)))

\* one score of parsed_scores, as parse_scores_from_text stores it
Score(accuracy, insight) ==
    [accuracy |-> accuracy, insight |-> insight, total |-> accuracy + insight,
     total_reported |-> accuracy + insight, total_ok |-> TRUE]

RA == ResponseLabel("A")
RB == ResponseLabel("B")
RC == ResponseLabel("C")
RZ == ResponseLabel("Z")

StoredEntry(parsed_ranking, reviewed_labels, parsed_scores, text) ==
    [ranking |-> text, parsed_ranking |-> parsed_ranking,
     parsed_scores |-> parsed_scores, reviewed_labels |-> reviewed_labels]

\* Stage-2 entries as the pipeline and stored conversations hold them:
\* full rankings both ways; a reviewer that names and scores a label it was
\* not shown; a reviewer that omits a label; a stored entry with the text
\* only; a reviewed label no run assigned; a reply with no label; a
\* three-label ranking with equal totals
AggregatorEntries ==
    { StoredEntry(<<RB, RA>>, <<RA, RB>>, RA :> Score(8, 6) @@ RB :> Score(9, 9), <<Prose>>),
      StoredEntry(<<RA, RB>>, <<RA, RB>>, RA :> Score(9, 9) @@ RB :> Score(8, 6), <<Prose>>),
      StoredEntry(<<RA, RB, RC>>, <<RA, RC>>,
                  RA :> Score(7, 7) @@ RB :> Score(10, 10) @@ RC :> Score(7, 7), <<Prose>>),
      StoredEntry(<<RC>>, <<RA, RC>>, RC :> Score(5, 5), <<Prose>>),
      StoredEntry(<<>>, <<>>, <<>>,
                  <<ScoresHeader, ScoreLine("B", 9, 9, 18), ScoreLine("Z", 1, 1, 2),
                    Marker, Numbered("B"), Numbered("Z"), Numbered("B"), Numbered("A")>>),
      StoredEntry(<<RZ, RA, RA>>, <<RA, RB, RZ>>, RZ :> Score(1, 1), <<Prose>>),
      StoredEntry(<<>>, <<RA, RB>>, <<>>, <<Prose>>),
      StoredEntry(<<RA, RC, RB>>, <<RA, RB, RC>>,
                  RA :> Score(8, 7) @@ RB :> Score(7, 8) @@ RC :> Score(8, 7), <<Prose>>) }

\* label maps: of two and of three results, of a council listed against
\* the name order, and of a council that repeats a name
LabelMaps ==
    { RA :> Names[1] @@ RB :> Names[2],
      RA :> Names[1] @@ RB :> Names[2] @@ RC :> Names[3],
      RA :> Names[2] @@ RB :> Names[1],
      RA :> Names[1] @@ RB :> Names[1] }

\* calculate_aggregate_rankings(stage2_results, label_to_model) or
\* calculate_aggregate_scores(stage2_results, label_to_model)
InitAggregate ==
    /\ fn \in {"calculate_aggregate_rankings", "calculate_aggregate_scores"}
    /\ args \in [stage2_results : SeqsUpTo(AggregatorEntries, MaxReviewers),
                 label_to_model : LabelMaps]
    /\ ret = <<>>
    /\ NoPipeline
    /\ worker = <<>>
    /\ disk = <<>>

AggregateRankings ==
    /\ fn = "calculate_aggregate_rankings"
    /\ ret = <<>>
    /\ ret' = <<calculate_aggregate_rankings(args.stage2_results, args.label_to_model)>>
    /\ UNCHANGED <<fn, args, worker, disk, pipeline_vars>>

AggregateScores ==
    /\ fn = "calculate_aggregate_scores"
    /\ ret = <<>>
    /\ ret' = <<calculate_aggregate_scores(args.stage2_results, args.label_to_model)>>
    /\ UNCHANGED <<fn, args, worker, disk, pipeline_vars>>

NextAggregate == AggregateRankings \/ AggregateScores

AggregateSpec == InitAggregate /\ [][NextAggregate]_vars

----------------------------------------------------------------------------
(* parse_ranking_from_text on its own.                                     *)

\* longest text (in spans) passed to the parser
MaxText == 4

\* the spans of the texts
TextSpans ==
    {Marker, Prose, Numbered("A"), Numbered("B"), Mention("A"), Mention("B"),
     ScoreLine("C", 8, 6, 14)}

\* parse_ranking_from_text(ranking_text)
InitParse ==
    /\ fn = "parse_ranking_from_text"
    /\ args \in [ranking_text : SeqsUpTo(TextSpans, MaxText)]
    /\ ret = <<>>
    /\ NoPipeline
    /\ worker = <<>>
    /\ disk = <<>>

ParseRanking ==
    /\ fn = "parse_ranking_from_text"
    /\ ret = <<>>
    /\ ret' = <<parse_ranking_from_text(args.ranking_text)>>
    /\ UNCHANGED <<fn, args, worker, disk, pipeline_vars>>

NextParse == ParseRanking

ParseSpec == InitParse /\ [][NextParse]_vars

----------------------------------------------------------------------------
(* parse_scores_from_text, called on its own.                              *)

\* longest text, in spans
MaxScoreText == 3

\* the spans of the texts: both headers in either case, and score lines
\* whose numbers are within, at and beyond the clamps
ScoreSpans ==
    {ScoresHeader, ScoresHeaderLower, Marker, MarkerLower, Prose,
     ScoreLine("A", 8, 6, 14), ScoreLine("A", 12, 3, 15),
     ScoreLine("B", 99, 99, 99), ScoreLine("B", 10, 10, 20),
     ScoreLineLower("A", 0, 0, 20)}

\* parse_scores_from_text(ranking_text)
InitScores ==
    /\ fn = "parse_scores_from_text"
    /\ args \in [ranking_text : SeqsUpTo(ScoreSpans, MaxScoreText)]
    /\ ret = <<>>
    /\ NoPipeline
    /\ worker = <<>>
    /\ disk = <<>>

ParseScores ==
    /\ fn = "parse_scores_from_text"
    /\ ret = <<>>
    /\ ret' = <<parse_scores_from_text(args.ranking_text)>>
    /\ UNCHANGED <<fn, args, worker, disk, pipeline_vars>>

NextScores == ParseScores

ScoresSpec == InitScores /\ [][NextScores]_vars

----------------------------------------------------------------------------
(* worker_client.py: worker_chat_full and worker_synthesize_full, called   *)
(* on their own.  The remote service and the network are the environment.  *)

\* longest messages list
MaxMessages == 2

\* _join, line 20: base_url.rstrip("/") + path
BaseUrls == {"http://w1:8001", "http://w1:8001/", "http://w1:8001//"}
RStripSlash(url) == IF url \in BaseUrls THEN "http://w1:8001" ELSE url
_join(base_url, path) == RStripSlash(base_url) \o path

\* messages of a chat call; ChatMessage (worker_protocol.py lines 10-12)
\* wants a role of the Literal and a str content
ChatMessages ==
    [role : {"system", "user", "tool"}, content : {"en", None}]
ValidMessage(m) ==
    m.role \in {"system", "user", "assistant"} /\ m.content # None

\* arguments of a synthesize call; SynthesizeRequest (lines 29-33) wants a
\* str and two lists of dicts
SynthesizeArgs ==
    [user_query : {"en", None}, stage1 : {<<>>, <<"dict">>, <<None>>},
     stage2 : {<<>>, <<"dict">>}]
ValidList(list) == \A k \in 1..Len(list) : list[k] # None

\* ChatRequest(messages=messages) / SynthesizeRequest(...): pydantic
\* raises ValidationError unless the payload fits the schema
ValidPayload ==
    IF fn = "worker_chat_full"
      THEN \A k \in 1..Len(args.messages) : ValidMessage(args.messages[k])
      ELSE /\ args.request.user_query # None
           /\ ValidList(args.request.stage1)
           /\ ValidList(args.request.stage2)

\* lines 44 and 84: the URL the request is posted to
UrlOf(f, a) ==
    IF f = "worker_chat_full" THEN _join(a.worker_base_url, "/api/chat")
    ELSE _join(a.chairman_base_url, "/api/synthesize")

\* the declared fields of the reply schemas, worker_protocol.py lines 21-26
\* and 36-39, all required
ChatResponseFields == {"content", "latency_ms", "worker_name", "model", "role"}
SynthesizeResponseFields == {"model", "response", "latency_ms"}
RequiredFields(f) ==
    IF f = "worker_chat_full" THEN ChatResponseFields ELSE SynthesizeResponseFields
ResponseOf(f) ==
    IF f = "worker_chat_full" THEN "ChatResponse" ELSE "SynthesizeResponse"

\* what client.post can raise (httpx.TransportError subclasses)
TransportErrors == {"ConnectError", "ConnectTimeout", "ReadTimeout", "RemoteProtocolError"}
\* status codes of a response
Statuses == {200, 201, 301, 404, 500, 503}
\* response bodies: not JSON at all, or a JSON object with these fields
Bodies ==
    [json : {FALSE}, fields : {{}}]
      \cup [json : {TRUE},
            fields : {{}, {"detail"}, ChatResponseFields, SynthesizeResponseFields,
                      ChatResponseFields \cup {"prompt_tokens"}}]
NoBody == [json |-> FALSE, fields |-> {}]

\* resp.raise_for_status() raises HTTPStatusError unless the status is 2xx
IsSuccess(status) == status \in 200..299
\* resp.json() raises on a body that is not JSON; model_validate raises
\* ValidationError when a declared field is missing, and ignores the others
ValidBody(f, body) == body.json /\ RequiredFields(f) \subseteq body.fields

\* lines 47 and 89: except Exception.  Every exception of the try block
\* derives from Exception
\* fault variant: only the errors of httpx are caught
CaughtHttpOnly(exc) == exc \in TransportErrors \cup {"HTTPStatusError"}
Caught(exc) ==
    exc \in TransportErrors
              \cup {"HTTPStatusError", "JSONDecodeError", "ValidationError"}

\* the exception of the try block ends the call: None is returned when it
\* is caught (lines 47-49, 89-91), else it reaches the caller
Except(exc) ==
    /\ pc' = "done"
    /\ IF Caught(exc)
         THEN ret' = <<None>> /\ raised' = raised
         ELSE ret' = ret /\ raised' = exc

client_unchanged ==
    <<entry, council, title_generator, chairman_down, orig_query, user_query,
      stages, sent, norm_to, s1, stage1_results, s2, stage2_results,
      label_to_model, aggregate_rankings, aggregate_scores, synth_calls, synth,
      stage3_result, returned, stage2_locals, fn, args, reply, title, worker, disk>>

InitClient ==
    /\ \/ /\ fn = "worker_chat_full"
          /\ args \in [worker_base_url : BaseUrls,
                       messages : SeqsUpTo(ChatMessages, MaxMessages)]
       \/ /\ fn = "worker_synthesize_full"
          /\ args \in [chairman_base_url : BaseUrls, request : SynthesizeArgs]
    /\ ret = <<>>
    /\ entry = ""
    /\ council = <<>>
    /\ title_generator = None
    /\ chairman_down = FALSE
    /\ orig_query = ""
    /\ user_query = ""
    /\ pc = "try"
    /\ stages = <<>>
    /\ stage1_results = <<>>
    /\ stage2_results = <<>>
    /\ sent = NoCalls
    /\ norm_to = 0
    /\ s1 = <<>>
    /\ s2 = <<>>
    /\ label_to_model = <<>>
    /\ aggregate_rankings = <<>>
    /\ aggregate_scores = <<>>
    /\ synth_calls = <<>>
    /\ synth = None
    /\ stage3_result = <<>>
    /\ returned = <<>>
    /\ raised = ""
    /\ stage2_locals = <<>>
    /\ posted = <<>>
    /\ exchange = <<>>
    /\ reply = <<>>
    /\ title = <<>>
    /\ worker = <<>>
    /\ disk = <<>>

\* lines 42 and 81: the request object is built inside the try block
ClientBuildRequest ==
    /\ pc = "try"
    /\ IF ValidPayload
         THEN pc' = "post" /\ UNCHANGED <<ret, raised>>
         ELSE Except("ValidationError")
    /\ UNCHANGED <<reply, title, posted, exchange, client_unchanged>>

\* lines 43-44 and 82-86: one client.post
ClientPost ==
    /\ pc = "post"
    /\ posted' = Append(posted, UrlOf(fn, args))
    /\ pc' = "awaiting"
    /\ UNCHANGED <<ret, raised, exchange, client_unchanged>>

\* the request fails or times out: client.post raises
ClientTransportError ==
    /\ pc = "awaiting"
    /\ \E e \in TransportErrors :
          /\ exchange' = <<[error |-> e, status |-> 0, body |-> NoBody]>>
          /\ Except(e)
    /\ UNCHANGED <<posted, client_unchanged>>

\* a response arrives: lines 45-46 and 87-88
ClientResponse ==
    /\ pc = "awaiting"
    /\ \E status \in Statuses, body \in Bodies :
          /\ exchange' = <<[error |-> "", status |-> status, body |-> body]>>
          /\ IF ~IsSuccess(status) THEN Except("HTTPStatusError")
             ELSE IF ~body.json THEN Except("JSONDecodeError")
             ELSE IF ~ValidBody(fn, body) THEN Except("ValidationError")
             ELSE /\ ret' = <<ResponseOf(fn)>>
                  /\ pc' = "done"
                  /\ raised' = raised
    /\ UNCHANGED <<posted, client_unchanged>>

NextClient ==
    \/ ClientBuildRequest
    \/ ClientPost
    \/ ClientTransportError
    \/ ClientResponse

ClientSpec == InitClient /\ [][NextClient]_vars

----------------------------------------------------------------------------
(* generate_conversation_title, called on its own.  A title text is the    *)
(* sequence of its characters.                                             *)

\* line 726: len(title) > 50
TitleLimit == 50
\* line 727: title[:47]
TitleKept == 47

\* characters: a Latin letter, a blank, the two quote characters, and "zh"
\* for one character of a non-Latin script
Blanks == {" "}
Quotes == {"\"", "'"}
Rep(c, n) == [k \in 1..n |-> c]

\* _contains_non_english_script on a title text
HasNonLatinChar(text) == \E k \in 1..Len(text) : text[k] = "zh"

\* str.strip(chars): the characters of chars are removed from both ends
RECURSIVE LStrip(_, _)
LStrip(text, chars) ==
    IF text # <<>> /\ Head(text) \in chars THEN LStrip(Tail(text), chars) ELSE text
RECURSIVE RStrip(_, _)
RStrip(text, chars) ==
    IF text # <<>> /\ text[Len(text)] \in chars
      THEN RStrip(SubSeq(text, 1, Len(text) - 1), chars)
      ELSE text
StripChars(text, chars) == RStrip(LStrip(text, chars), chars)

\* lines 726-727
\* fault variant: the ellipsis is added to the first 50 characters
TruncateAtLimit(text) ==
    IF Len(text) > TitleLimit
      THEN SubSeq(text, 1, TitleLimit) \o <<".", ".", ".">>
      ELSE text
Truncate(text) ==
    IF Len(text) > TitleLimit
      THEN SubSeq(text, 1, TitleKept) \o <<".", ".", ".">>
      ELSE text

\* lines 723-729: title.strip('"\''), then the truncation
CleanTitle(text) == Truncate(StripChars(text, Quotes))

\* "New Conversation", lines 695 and 707
DefaultTitle ==
    <<"N", "e", "w", " ", "C", "o", "n", "v", "e", "r", "s", "a", "t", "i", "o", "n">>

\* texts of the replies: empty; padded; quoted; quoted with blanks inside;
\* of 50, of 51 and, within quotes, of 50 characters; with non-Latin
\* script, short and long
TitleTexts ==
    { <<>>,
      <<" ", "a", "b", " ">>,
      <<"\"", "a", "b", "\"">>,
      <<" ", "'", " ", "a", " ", "'">>,
      Rep("a", TitleLimit),
      Rep("a", TitleLimit + 1),
      <<"\"">> \o Rep("a", TitleLimit) \o <<"\"">>,
      <<"zh">>,
      <<" ", "zh", "a">>,
      Rep("a", TitleLimit) \o <<"zh">> }

\* outcome of the title call and of its rewrite call: None or a ChatResponse
TitleReplies ==
    {[resp |-> None, content |-> <<>>]}
    \cup {[resp |-> "ChatResponse", content |-> t] : t \in TitleTexts}

title_unchanged ==
    <<entry, council, title_generator, chairman_down, orig_query, user_query,
      stages, norm_to, s1, stage1_results, s2, stage2_results, label_to_model,
      aggregate_rankings, aggregate_scores, synth_calls, synth, stage3_result,
      returned, raised, stage2_locals, fn, args, posted, exchange, worker, disk>>

\* generate_conversation_title(user_query)
InitTitle ==
    /\ entry = "generate_conversation_title"
    /\ council \in Topologies
    /\ title_generator \in TitleGenerators
    /\ chairman_down \in BOOLEAN
    /\ orig_query \in {"en", "zh"}
    /\ user_query = orig_query
    /\ pc = "title"
    /\ stages = <<>>
    /\ stage1_results = <<>>
    /\ stage2_results = <<>>
    /\ InitCommon

\* lines 686-705: the title worker is the council worker the translation
\* call goes to as well; the council of a loaded topology is never empty
TitleCall ==
    /\ pc = "title"
    /\ sent' = Issue(sent, "title", {PreferredWorker})
    /\ pc' = "title_wait"
    /\ UNCHANGED <<reply, title, ret, title_unchanged>>

\* lines 706-720: None gives the default title; a title with non-Latin
\* script is sent back to the same worker once
TitleReply ==
    /\ pc = "title_wait"
    /\ \E r \in TitleReplies :
          /\ reply' = <<r>>
          /\ IF r.resp = None
               THEN /\ ret' = <<DefaultTitle>>
                    /\ pc' = "done"
                    /\ UNCHANGED <<title, sent>>
               ELSE /\ title' = StripChars(r.content, Blanks)
                    /\ IF HasNonLatinChar(StripChars(r.content, Blanks))
                         THEN /\ sent' = Issue(sent, "titlerw", {PreferredWorker})
                              /\ pc' = "title_rewrite_wait"
                              /\ ret' = ret
                         ELSE /\ ret' = <<CleanTitle(StripChars(r.content, Blanks))>>
                              /\ pc' = "done"
                              /\ sent' = sent
    /\ UNCHANGED title_unchanged

\* lines 717-720: the candidate of the rewrite
Candidate(rewrite) == StripChars(rewrite.content, Blanks)
\* fault variant: the candidate is taken whatever its script
RewrittenTitleUnchecked(rewrite, old) ==
    IF rewrite.resp # None /\ rewrite.content # <<>> /\ Candidate(rewrite) # <<>>
      THEN Candidate(rewrite)
      ELSE old
RewrittenTitle(rewrite, old) ==
    IF rewrite.resp # None /\ rewrite.content # <<>>
          /\ Candidate(rewrite) # <<>> /\ ~HasNonLatinChar(Candidate(rewrite))
      THEN Candidate(rewrite)
      ELSE old

\* lines 717-729
TitleRewriteReply ==
    /\ pc = "title_rewrite_wait"
    /\ \E rewrite \in TitleReplies :
          /\ title' = RewrittenTitle(rewrite, title)
          /\ ret' = <<CleanTitle(RewrittenTitle(rewrite, title))>>
    /\ pc' = "done"
    /\ UNCHANGED <<reply, sent, title_unchanged>>

NextTitle ==
    \/ TitleCall
    \/ TitleReply
    \/ TitleRewriteReply

TitleSpec == InitTitle /\ [][NextTitle]_vars

----------------------------------------------------------------------------
(* Progress: every worker call ends (with a reply, or with None when its   *)
(* own timeout expires), and the coroutine is resumed when it can be.      *)

LiveSpec == Spec /\ WF_vars(Next)

----------------------------------------------------------------------------
(* worker.py: one worker process.  Its handlers are coroutines of one      *)
(* event loop: a handler runs without interruption from one await to the   *)
(* next, so each action below is the code between two awaits.              *)

\* most requests a worker is sent in the runs explored
MaxRequests == 3

Requests == 1..MaxRequests

\* lines 25-28: WORKER_ROLE is "council" or "chairman", or the import fails
Roles == {"council", "chairman"}

\* a request that has not reached the worker yet
NewRequest == [endpoint |-> "", pc |-> "new", status |-> 0, exit |-> "", reply |-> <<>>]

\* lines 111 and 141: the role an endpoint is served under
RoleOf(endpoint) == IF endpoint = "/api/chat" THEN "council" ELSE "chairman"

\* fault variant: the role is not checked
AllowedAnyRole(endpoint, role) == TRUE
Allowed(endpoint, role) == role = RoleOf(endpoint)

\* lines 74-76
_inc_active_requests(n) == n + 1

\* lines 79-81: max(0, _ACTIVE_REQUESTS - 1)
_dec_active_requests(n) == IF n - 1 > 0 THEN n - 1 ELSE 0

\* lines 84-85
_get_active_requests == worker.active_requests

\* how the awaited ollama_chat ends (ollama.py): it returns, raises on a
\* connection or HTTP error, or raises on a timeout
OllamaExits == {"return", "error", "timeout"}

\* lines 135-136 and 196-197: the finally block runs on every exit
\* fault variant: the counter is decremented at the return statement only
CounterAfterReturnOnly(exit, n) ==
    IF exit = "return" THEN _dec_active_requests(n) ELSE n
CounterAfterExit(exit, n) == _dec_active_requests(n)

\* status of the reply: the returned model, or the unhandled exception
StatusOf(exit) == IF exit = "return" THEN 200 ELSE 500

InitWorker ==
    /\ worker \in [role : Roles, active_requests : {0}, ollama_calls : {0},
                   requests : {[r \in Requests |-> NewRequest]}]
    /\ fn = ""
    /\ args = <<>>
    /\ ret = <<>>
    /\ disk = <<>>
    /\ NoPipeline

\* lines 111-124 and 141-186: the role check; then the counter is raised
\* and the handler runs on to the await inside ollama_chat
Serve(r, endpoint) ==
    /\ worker.requests[r].pc = "new"
    /\ IF ~Allowed(endpoint, worker.role)
         THEN worker' = [worker EXCEPT
                 !.requests[r] = [@ EXCEPT !.endpoint = endpoint, !.pc = "done",
                                           !.status = 403, !.exit = "HTTPException"]]
         ELSE worker' = [worker EXCEPT
                 !.active_requests = _inc_active_requests(@),
                 !.ollama_calls = @ + 1,
                 !.requests[r] = [@ EXCEPT !.endpoint = endpoint, !.pc = "ollama_chat"]]
    /\ UNCHANGED <<fn, args, ret, disk, pipeline_vars>>

\* POST /api/chat, lines 109-124
chat(r) == Serve(r, "/api/chat")

\* POST /api/synthesize, lines 139-186
synthesize(r) == Serve(r, "/api/synthesize")

\* lines 118-136 and 181-197: ollama_chat ends, the reply is built or the
\* exception leaves the handler, and the finally block runs
OllamaChatExit(r) ==
    /\ worker.requests[r].pc = "ollama_chat"
    /\ \E exit \in OllamaExits :
          worker' = [worker EXCEPT
              !.active_requests = CounterAfterExit(exit, @),
              !.requests[r] = [@ EXCEPT !.pc = "done", !.status = StatusOf(exit),
                                        !.exit = exit]]
    /\ UNCHANGED <<fn, args, ret, disk, pipeline_vars>>

\* GET /api/health, lines 93-95: the handler awaits ollama_health
health(r) ==
    /\ worker.requests[r].pc = "new"
    /\ worker' = [worker EXCEPT
          !.requests[r] = [@ EXCEPT !.endpoint = "/api/health", !.pc = "ollama_health"]]
    /\ UNCHANGED <<fn, args, ret, disk, pipeline_vars>>

\* lines 96-106: ollama_health has returned True or False (it raises
\* nothing); the counter is read and the reply built
HealthReply(r) ==
    /\ worker.requests[r].pc = "ollama_health"
    /\ \E ok \in BOOLEAN :
          worker' = [worker EXCEPT
              !.requests[r] = [@ EXCEPT
                  !.pc = "done", !.status = 200, !.exit = "return",
                  !.reply = <<[role |-> worker.role, ollama_ok |-> ok,
                               active_requests |-> _get_active_requests,
                               busy |-> _get_active_requests > 0]>>]]
    /\ UNCHANGED <<fn, args, ret, disk, pipeline_vars>>

NextWorker ==
    \/ \E r \in Requests : chat(r)
    \/ \E r \in Requests : synthesize(r)
    \/ \E r \in Requests : OllamaChatExit(r)
    \/ \E r \in Requests : health(r)
    \/ \E r \in Requests : HealthReply(r)

WorkerSpec == InitWorker /\ [][NextWorker]_vars

----------------------------------------------------------------------------
(* storage.py: one conversation file.  json.dump and json.load reproduce   *)
(* the stored values (dicts with string keys in insertion order, lists,    *)
(* strings, numbers, booleans), so the file is held as the value saved.    *)

\* most get_conversation calls made on the file
MaxLoads == 3

\* stage1_collect_responses for the given council workers when exactly the
\* workers at the positions of `responders` reply: one entry per reply,
\* in council order (council.py lines 155-169)
RECURSIVE Stage1Of(_, _, _)
Stage1Of(workers, responders, i) ==
    IF i > Len(workers) THEN <<>>
    ELSE (IF i \in responders
            THEN <<[model |-> workers[i], response |-> "en", rewrite_applied |-> FALSE]>>
            ELSE <<>>) \o Stage1Of(workers, responders, i + 1)

\* the task of one reviewer: its prompt data and the reply to the review
ReviewOf(stage1, name, content) ==
    [content |-> content,
     reviewed_labels |-> _build_prompt_for_worker(stage1, name).reviewed_labels,
     excluded_label |-> _build_prompt_for_worker(stage1, name).excluded_label]

\* stage2_collect_rankings (council.py lines 235-236 and 345-371): nothing
\* for fewer than two Stage-1 results; else one entry per reviewer whose
\* reply is not None (<<>>: None, <<text>>: a reply), in council order
RECURSIVE Stage2Of(_, _, _, _)
Stage2Of(stage1, workers, replies, i) ==
    IF TooFewToRank(stage1) \/ i > Len(workers) THEN <<>>
    ELSE (IF replies[i] # <<>>
            THEN <<Stage2EntryOf(workers[i], ReviewOf(stage1, workers[i], replies[i][1]),
                                 Stage2Parsed(ReviewOf(stage1, workers[i], replies[i][1])))>>
            ELSE <<>>) \o Stage2Of(stage1, workers, replies, i + 1)

\* run_full_council lines 749-778: the bundle handed to storage
BundleOf(stage1, stage2) ==
    IF stage1 = <<>> THEN ErrorBundle
    ELSE [stage1 |-> stage1, stage2 |-> stage2,
          stage3 |-> SynthesisResult("en", FALSE),
          metadata |-> [label_to_model |-> LabelToModel(stage1),
                        aggregate_rankings |->
                            calculate_aggregate_rankings(stage2, LabelToModel(stage1)),
                        aggregate_scores |->
                            calculate_aggregate_scores(stage2, LabelToModel(stage1))]]

\* replies to a review call: None; an empty text; a ranking with a repeated
\* and an unknown label; score lines and a ranking of one label
StoredReviews ==
    { <<>>, << <<>> >>,
      << <<Marker, Numbered("B"), Numbered("A"), Numbered("B"), Numbered("Z")>> >>,
      << <<ScoresHeader, ScoreLine("A", 8, 6, 14), ScoreLine("B", 12, 3, 9),
           Marker, Numbered("C")>> >> }

\* the bundles of the runs of a council of distinct workers
Bundles ==
    UNION {
        { BundleOf(Stage1Of(DistinctCouncil(n), responders, 1),
                   Stage2Of(Stage1Of(DistinctCouncil(n), responders, 1),
                            DistinctCouncil(n), replies, 1)) :
            responders \in SUBSET (1..n), replies \in [1..n -> StoredReviews] } :
        n \in 1..MaxCouncil }

\* lines 33-38: the record create_conversation writes
NewConversation == [id |-> "c1", title |-> "New Conversation", messages |-> <<>>]

\* lines 158-165: metadata is stored when it is not None
AssistantMessage(stage1, stage2, stage3, metadata) ==
    IF metadata = <<>>
      THEN [role |-> "assistant", stage1 |-> stage1, stage2 |-> stage2, stage3 |-> stage3]
      ELSE [role |-> "assistant", stage1 |-> stage1, stage2 |-> stage2, stage3 |-> stage3,
            metadata |-> metadata[1]]

\* lines 191-203; every stored Stage-1 entry has a non-empty model name
_infer_label_to_model(stage1) == LabelToModel(stage1)

\* line 232: list(label_to_model.keys()); both the pipeline and
\* _infer_label_to_model insert the labels in Stage-1 order
KeysOf(ltm) == [i \in 1..Cardinality(DOMAIN ltm) |-> ResponseLabel(Chr65(i - 1))]

\* dict.get(key), with <<>> for None
Get(dict, key) == IF key \in DOMAIN dict THEN <<dict[key]>> ELSE <<>>

\* dict[key] = value
Put(dict, key, value) ==
    [k \in DOMAIN dict \cup {key} |-> IF k = key THEN value ELSE dict[k]]

\* lines 242-246: the stored parsed_ranking, or the ranking text parsed
\* again when it is missing or empty
StoredParsed(e2) ==
    IF e2.parsed_ranking = <<>> THEN parse_ranking_from_text(e2.ranking)
    ELSE e2.parsed_ranking

\* lines 242-252, for one Stage-2 entry
UpgradedEntry(e2, valid_labels) ==
    [entry |-> [e2 EXCEPT !.parsed_ranking =
                   _sanitize_parsed_ranking(StoredParsed(e2), valid_labels)],
     mutated |-> \/ e2.parsed_ranking = <<>>
                 \/ e2.parsed_ranking #
                        _sanitize_parsed_ranking(StoredParsed(e2), valid_labels)]

\* lines 235-252: the loop runs only for a non-empty valid_labels
UpgradedStage2(stage2, valid_labels) ==
    [k \in 1..Len(stage2) |->
        IF valid_labels = <<>> THEN [entry |-> stage2[k], mutated |-> FALSE]
        ELSE UpgradedEntry(stage2[k], valid_labels)]

\* lines 219-223: the stored metadata, or {} when the message has none
StoredMetadata(message) ==
    IF "metadata" \in DOMAIN message THEN message.metadata ELSE <<>>

\* line 227: not isinstance(label_to_model, dict) or not label_to_model
NoLabels(metadata) ==
    \/ Get(metadata, "label_to_model") = <<>>
    \/ DOMAIN Get(metadata, "label_to_model")[1] = {}

\* line 256: not isinstance(aggregate_rankings, list) or not aggregate_rankings
NoRankings(metadata) ==
    \/ Get(metadata, "aggregate_rankings") = <<>>
    \/ Get(metadata, "aggregate_rankings")[1] = <<>>

\* lines 226-230: the label_to_model the upgrade works with
LabelsFor(message) ==
    IF NoLabels(StoredMetadata(message)) THEN _infer_label_to_model(message.stage1)
    ELSE StoredMetadata(message)["label_to_model"]

\* lines 232-252
Stage2For(message) == UpgradedStage2(message.stage2, KeysOf(LabelsFor(message)))

UpgradedEntries(upgraded) == [k \in 1..Len(upgraded) |-> upgraded[k].entry]

\* lines 229 and 259-260: the metadata after the upgrade
MetadataAfter(metadata, ltm, stage2) ==
    [k \in DOMAIN metadata \cup (IF NoLabels(metadata) THEN {"label_to_model"} ELSE {})
                           \cup (IF NoRankings(metadata) THEN {"aggregate_rankings"} ELSE {}) |->
        IF k = "label_to_model" /\ NoLabels(metadata) THEN ltm
        ELSE IF k = "aggregate_rankings" /\ NoRankings(metadata)
               THEN calculate_aggregate_rankings(stage2, ltm)
        ELSE metadata[k]]

\* lines 216-263, given the metadata, the label_to_model and the Stage-2
\* upgrades computed on the way
UpgradedMessage(message, metadata, ltm, upgraded) ==
    [message |->
         Put(Put(message, "stage2", UpgradedEntries(upgraded)),
             "metadata", MetadataAfter(metadata, ltm, UpgradedEntries(upgraded))),
     mutated |-> \/ "metadata" \notin DOMAIN message
                 \/ NoLabels(metadata)
                 \/ \E k \in 1..Len(upgraded) : upgraded[k].mutated
                 \/ NoRankings(metadata)]

\* lines 206-263: the message after the upgrade and the value returned
_upgrade_assistant_message_in_place(message) ==
    IF message.role # "assistant" THEN [message |-> message, mutated |-> FALSE]
    ELSE UpgradedMessage(message, StoredMetadata(message), LabelsFor(message),
                         Stage2For(message))

UpgradedConversation(conversation, up) ==
    [conversation |-> [conversation EXCEPT
                          !.messages = [k \in 1..Len(up) |-> up[k].message]],
     mutated |-> \E k \in 1..Len(up) : up[k].mutated]

\* lines 266-277
_upgrade_conversation_in_place(conversation) ==
    UpgradedConversation(conversation,
        [k \in 1..Len(conversation.messages) |->
            _upgrade_assistant_message_in_place(conversation.messages[k])])

\* lines 68-71: the conversation returned, whether the upgrade modified it,
\* and the file afterwards (saved when modified)
LoadedWith(file, up) ==
    [conversation |-> up.conversation,
     mutated |-> up.mutated,
     file |-> IF up.mutated
                THEN [conversation |-> up.conversation, writes |-> file.writes + 1]
                ELSE file]

\* lines 48-71 on the file
Loaded(file) == LoadedWith(file, _upgrade_conversation_in_place(file.conversation))

\* lines 74-85
save_conversation(file, conversation) ==
    [conversation |-> conversation, writes |-> file.writes + 1]

HasAssistantMessage(conversation) ==
    \E k \in 1..Len(conversation.messages) : conversation.messages[k].role = "assistant"

\* the file after create_conversation; args holds the bundle a finished
\* run hands to add_assistant_message, with or without its metadata
InitStorage ==
    /\ disk = [file |-> [conversation |-> NewConversation, writes |-> 1], log |-> <<>>]
    /\ fn = "add_assistant_message"
    /\ \E b \in Bundles :
          args \in {[stage1 |-> b.stage1, stage2 |-> b.stage2, stage3 |-> b.stage3,
                     metadata |-> m] : m \in {<<b.metadata>>, <<>>}}
    /\ ret = <<>>
    /\ worker = <<>>
    /\ NoPipeline

\* lines 129-134 and 167-169: the message is appended to the loaded
\* conversation and the conversation saved
AppendAndSave(loaded, message) ==
    disk' = [disk EXCEPT
        !.file = save_conversation(loaded.file,
                    [loaded.conversation EXCEPT !.messages = Append(@, message)])]

\* lines 117-134
add_user_message ==
    /\ disk.file.conversation.messages = <<>>
    /\ AppendAndSave(Loaded(disk.file), [role |-> "user", content |-> "en"])
    /\ UNCHANGED <<fn, args, ret, worker, pipeline_vars>>

\* lines 137-169
add_assistant_message ==
    /\ disk.file.conversation.messages # <<>>
    /\ ~HasAssistantMessage(disk.file.conversation)
    /\ AppendAndSave(Loaded(disk.file),
                     AssistantMessage(args.stage1, args.stage2, args.stage3, args.metadata))
    /\ UNCHANGED <<fn, args, ret, worker, pipeline_vars>>

\* log records, per call, whether the upgrade reported a modification and
\* whether the file was written
Returning(loaded) ==
    /\ disk' = [file |-> loaded.file,
                log |-> Append(disk.log, [mutated |-> loaded.mutated,
                                          wrote |-> loaded.file.writes # disk.file.writes])]
    /\ ret' = <<loaded.conversation>>

\* lines 48-71, once the assistant message is stored
get_conversation ==
    /\ HasAssistantMessage(disk.file.conversation)
    /\ Len(disk.log) < MaxLoads
    /\ Returning(Loaded(disk.file))
    /\ UNCHANGED <<fn, args, worker, pipeline_vars>>

NextStorage == add_user_message \/ add_assistant_message \/ get_conversation

StorageSpec == InitStorage /\ [][NextStorage]_vars

----------------------------------------------------------------------------
(* Properties.                                                             *)

InRun == entry = "run_full_council"

RunFinished == InRun /\ pc \in {"done", "failed", "raised"}

\* the Stage-1 broadcast of the run has been collected
Stage1Collected ==
    InRun /\ pc \notin {"normalizing", "normalizing_wait", "stage1", "stage1_wait"}

\* council positions whose Stage-1 call came back with a reply
Stage1Succeeded == {i \in Positions : s1[i] \notin {"idle", "pending", None}}

\* stage2_collect_rankings has computed the label map
LabelsAssigned ==
    /\ entry \in {"run_full_council", "stage2_collect_rankings"}
    /\ pc \in {"stage2_wait", "aggregating", "done"}

Stage1Models == {stage1_results[k].model : k \in 1..Len(stage1_results)}

AllLabels == [k \in 1..Len(stage1_results) |-> "Response " \o Letters[k]]

RECURSIVE Without(_, _)
Without(seq, x) ==
    IF seq = <<>> THEN <<>>
    ELSE (IF Head(seq) = x THEN <<>> ELSE <<Head(seq)>>) \o Without(Tail(seq), x)

\* C1: once a run has collected Stage 1, the Stage-1 result list holds
\* exactly the council workers whose Stage-1 call succeeded, each once, in
\* council order, and whenever labels are assigned the i-th entry (0-based)
\* has the label "Response " + chr(65+i).
C1_Stage1ListAndLabels ==
    /\ Stage1Collected =>
          LET ok == IndexList(Stage1Succeeded, 1, Len(council))
          IN  /\ Len(stage1_results) = Len(ok)
              /\ \A k \in 1..Len(ok) : stage1_results[k].model = council[ok[k]]
    /\ LabelsAssigned =>
          /\ DOMAIN label_to_model = Range(AllLabels)
          /\ \A k \in 1..Len(stage1_results) :
                label_to_model[AllLabels[k]] = stage1_results[k].model

\* C2: whenever the label map has been computed, over any accepted
\* topology, it has exactly one label per Stage-1 result and no two
\* distinct labels map to the same worker name.
C2_LabelToModelBijective ==
    LabelsAssigned =>
        /\ Cardinality(DOMAIN label_to_model) = Len(stage1_results)
        /\ \A a, b \in DOMAIN label_to_model :
              label_to_model[a] = label_to_model[b] => a = b

\* C3: a run whose Stage 1 yields no result returns the bundle (empty
\* Stage-1 list, empty Stage-2 list, error synthesis of kind
\* stage1_no_responses, empty metadata), and issues no Stage-2 call and no
\* chairman call.
C3_EmptyStage1Bundle ==
    (Stage1Collected /\ Stage1Entries(s1, 1) = <<>>) =>
        /\ pc = "failed"
        /\ raised = ""
        /\ returned = <<[stage1 |-> <<>>, stage2 |-> <<>>,
                         stage3 |-> [model |-> "error", error |-> TRUE,
                                     error_type |-> "stage1_no_responses"],
                         metadata |-> <<>>]>>
        /\ \A i \in Positions : sent["s2"][i] = 0 /\ sent["s2rw"][i] = 0
        /\ synth_calls = <<>>

C3_Witness ==
    /\ InRun /\ pc = "failed" /\ returned # <<>>
    /\ Len(council) >= 2
    /\ \A i \in Positions : s1[i] = None

\* C4: run_full_council never raises; a finished run has returned a
\* bundle, which is the stage1_no_responses bundle only when Stage 1
\* yielded no result, and a run in which a council worker replied in
\* Stage 1 finishes with a non-empty Stage-1 list.
C4_RunReturnsBundle ==
    /\ InRun => raised = ""
    /\ RunFinished => returned # <<>>
    /\ (RunFinished /\ returned # <<>> /\ Stage1Entries(s1, 1) # <<>>) =>
          /\ returned[1].stage3.error_type # "stage1_no_responses"
          /\ returned[1].stage1 # <<>>

\* C5: a finished run in which exactly one council worker succeeded in
\* Stage 1 issued no Stage-2 call, has an empty Stage-2 list, the label
\* map {"Response A": that worker}, empty aggregates, and a chairman
\* synthesis call carrying that single Stage-1 response.
C5_SingleResponder ==
    (RunFinished /\ Cardinality(Stage1Succeeded) = 1 /\ Len(Stage1Entries(s1, 1)) = 1) =>
        /\ \A i \in Positions : sent["s2"][i] = 0
        /\ stage2_results = <<>>
        /\ DOMAIN label_to_model = {"Response A"}
        /\ \A i \in Stage1Succeeded : label_to_model["Response A"] = council[i]
        /\ aggregate_rankings = <<>> /\ aggregate_scores = <<>>
        /\ Len(synth_calls) >= 1
        /\ Len(synth_calls[1].stage1) = 1
        /\ \A i \in Stage1Succeeded : synth_calls[1].stage1[1].model = council[i]

\* C6: every finished run has passed the stages in the order Normalizing,
\* Stage1, Stage2, Aggregating, Stage3, Done (or stopped at Failed after
\* Stage1); no Stage-2 call is out while a Stage-1 call is pending, and no
\* synthesis call is out while a Stage-2 task is unfinished.
C6_StageOrder ==
    /\ RunFinished =>
          stages \in {<<"Normalizing", "Stage1", "Stage2", "Aggregating", "Stage3", "Done">>,
                      <<"Normalizing", "Stage1", "Failed">>}
    /\ (InRun /\ \E i \in Positions : sent["s2"][i] > 0) =>
          \A i \in Positions : s1[i] \notin {"idle", "pending"}
    /\ (InRun /\ synth_calls # <<>>) =>
          \A i \in Positions : s2[i].st \in {"idle", "done"}

\* C7: a finished run in which a council worker replied in Stage 1 and
\* the chairman is unreachable has returned the Stage-1 list, the Stage-2
\* list and the metadata, with a Stage-3 result naming the chairman, with
\* error = true and kind chairman_unreachable, after exactly one
\* synthesis call.
C7_ChairmanUnreachable ==
    (RunFinished /\ chairman_down /\ Stage1Entries(s1, 1) # <<>>) =>
        /\ returned # <<>>
        /\ returned[1].stage1 = Stage1Entries(s1, 1)
        /\ returned[1].stage3.model = ChairmanName
        /\ returned[1].stage3.error = TRUE
        /\ returned[1].stage3.error_type = "chairman_unreachable"
        /\ Len(synth_calls) = 1

\* the reviewer tasks that have sent their review call
Asked == {i \in Positions : s2[i].st # "idle"}

\* the reviewer tasks whose reply was collected (lines 345-371 build the
\* Stage-2 entry of such a task from its reviewed_labels and excluded_label)
Reviewed == {i \in Positions : s2[i].st = "done" /\ s2[i].resp # None}

PromptLabels(task) == [k \in 1..Len(task.prompt) |-> task.prompt[k].label]

C9_Original ==
    /\ \A i \in Positions : sent["s2"][i] > 0 => council[i] \in Stage1Models
    /\ \A k \in 1..Len(stage2_results) :
          stage2_results[k].model \in Range(label_to_model)

\* C9 amended: when at least two Stage-1 results exist, exactly one
\* Stage-2 review call goes to every council worker of the topology,
\* whether or not it produced a Stage-1 result; a reviewer without a
\* Stage-1 result has no excluded label and is shown every label.
C9_EveryCouncilWorkerReviews ==
    (entry \in {"run_full_council", "stage2_collect_rankings"}
        /\ pc \in {"stage2_wait", "aggregating", "done", "raised"}
        /\ Len(stage1_results) >= 2) =>
        \A i \in Positions :
            /\ sent["s2"][i] = 1
            /\ council[i] \notin Stage1Models =>
                  /\ s2[i].excluded_label = None
                  /\ s2[i].reviewed_labels = AllLabels

C9_Witness ==
    \E i \in Reviewed :
        /\ council[i] \notin Stage1Models
        /\ sent["s2"][i] = 1
        /\ Len(s2[i].reviewed_labels) = 2

\* C10 as stated: no reviewer that was shown fewer than 2 responses has a
\* review collected or a Stage-2 entry, so every one of them has at least
\* 2 labels in reviewed_labels.
C10_Original ==
    /\ \A i \in Reviewed : Len(s2[i].reviewed_labels) >= 2
    /\ \A k \in 1..Len(stage2_results) :
          Len(stage2_results[k].reviewed_labels) >= 2

\* C10 amended: no review is asked for, and no Stage-2 entry produced,
\* when fewer than 2 Stage-1 results exist; with two or more, a reviewer
\* with a Stage-1 result is shown all labels but its own (one label when
\* there are exactly two results) and a reviewer without one is shown all.
C10_ReviewNeedsTwoResults ==
    /\ \A i \in Asked :
          /\ Len(stage1_results) >= 2
          /\ Len(s2[i].reviewed_labels)
                = (IF council[i] \in Stage1Models THEN Len(stage1_results) - 1
                   ELSE Len(stage1_results))
          /\ Len(s2[i].reviewed_labels) >= 1
    /\ \A k \in 1..Len(stage2_results) :
          /\ Len(stage1_results) >= 2
          /\ Len(stage2_results[k].reviewed_labels) >= 1
    /\ (Len(stage1_results) < 2 /\ pc \in {"done", "aggregating"}) =>
          stage2_results = <<>>

C10_Witness ==
    /\ Len(stage1_results) = 2
    /\ \E i \in Reviewed :
          /\ council[i] \in Stage1Models
          /\ Len(s2[i].reviewed_labels) = 1

----------------------------------------------------------------------------
(* Stage-2 entries: parsing and sanitising of the reviewer's text.         *)

NoDuplicates(seq) == \A i, j \in 1..Len(seq) : seq[i] = seq[j] => i = j

\* what lines 349-371 computed: the entries of stage2_results, and the
\* values of the iteration that was left by the exception
Stage2Computed ==
    {[parsed_ranking |-> stage2_results[k].parsed_ranking,
      parsed_scores |-> stage2_results[k].parsed_scores,
      ranking |-> stage2_results[k].ranking,
      reviewed_labels |-> stage2_results[k].reviewed_labels,
      excluded_label |-> stage2_results[k].excluded_label]
        : k \in 1..Len(stage2_results)}
    \cup {[parsed_ranking |-> stage2_locals[k].parsed,
           parsed_scores |-> stage2_locals[k].parsed_scores,
           ranking |-> stage2_locals[k].content,
           reviewed_labels |-> stage2_locals[k].reviewed_labels,
           excluded_label |-> stage2_locals[k].excluded_label]
             : k \in 1..Len(stage2_locals)}

\* C11: whatever the reviewer returned, parsed_ranking has no duplicates,
\* the labels of parsed_ranking and the keys of parsed_scores are in
\* reviewed_labels, reviewed_labels are keys of label_to_model, and
\* excluded_label is in neither parsed_ranking nor parsed_scores
C11_Stage2LabelsKnown ==
    \A e \in Stage2Computed :
        /\ NoDuplicates(e.parsed_ranking)
        /\ Range(e.parsed_ranking) \subseteq Range(e.reviewed_labels)
        /\ DOMAIN e.parsed_scores \subseteq Range(e.reviewed_labels)
        /\ Range(e.reviewed_labels) \subseteq DOMAIN label_to_model
        /\ e.excluded_label \notin Range(e.parsed_ranking)
        /\ e.excluded_label \notin DOMAIN e.parsed_scores

\* a reviewer that is "Response A" itself returned a ranking that repeats a
\* label and names its own and an unknown label
C11_Witness ==
    \E e \in Stage2Computed :
        /\ e.excluded_label = ResponseLabel("A")
        /\ ResponseLabel("A") \in Range(parse_ranking_from_text(e.ranking))
        /\ ResponseLabel("Z") \in Range(parse_ranking_from_text(e.ranking))
        /\ ~NoDuplicates(parse_ranking_from_text(e.ranking))

\* C12: each Stage-2 reply is sanitised in partial mode: parsed_ranking is
\* the first-seen-order subsequence, without repeats, of the parsed labels
\* that are in reviewed_labels; labels the reviewer was shown but did not
\* mention are not appended
C12_PartialMode ==
    \A e \in Stage2Computed :
        e.parsed_ranking =
            KeepFirst(parse_ranking_from_text(e.ranking), Range(e.reviewed_labels), {})

----------------------------------------------------------------------------
(* _sanitize_parsed_ranking on its own (SanitizeSpec).                     *)

\* index of the first occurrence of x in seq
FirstIndex(seq, x) == CHOOSE i \in 1..Len(seq) : seq[i] = x /\ \A j \in 1..(i - 1) : seq[j] # x

\* C13: sanitising the result of sanitize(x, V) again with the same V
\* returns the same sequence, for every x and every list V
C13_SanitizeIdempotent ==
    (fn = "_sanitize_parsed_ranking" /\ Len(ret) = 2) => ret[2] = ret[1]

\* the input had repeated and unknown labels and omitted a valid one, V
\* repeats a label, and the result was sanitised twice
C13_Witness ==
    /\ fn = "_sanitize_parsed_ranking"
    /\ Len(ret) = 2
    /\ ~NoDuplicates(args.parsed)
    /\ ~NoDuplicates(args.valid_labels)
    /\ ResponseLabel("Z") \in Range(args.parsed)
    /\ ~(Range(args.valid_labels) \subseteq Range(args.parsed))

\* C14: for a list V without repeats the result is a permutation of
\* exactly V: the valid labels of the input first, in first-seen order
\* and once each, then the labels of V the input lacks, in V's order
C14_CompletePermutation ==
    (fn = "_sanitize_parsed_ranking" /\ Len(ret) >= 1 /\ NoDuplicates(args.valid_labels)) =>
        LET out == ret[1]
            V == args.valid_labels
            given == Range(args.parsed) \cap Range(V)
            n == Cardinality(given)
        IN  /\ NoDuplicates(out)
            /\ Len(out) = Len(V)
            /\ Range(out) = Range(V)
            /\ {out[i] : i \in 1..n} = given
            /\ \A i, j \in 1..n :
                  i < j => FirstIndex(args.parsed, out[i]) < FirstIndex(args.parsed, out[j])
            /\ \A i, j \in (n + 1)..Len(out) :
                  i < j => FirstIndex(V, out[i]) < FirstIndex(V, out[j])

\* the input repeats a label, holds an unknown one, ranks two valid labels
\* against V's order and omits two labels of V
C14_Witness ==
    /\ fn = "_sanitize_parsed_ranking"
    /\ Len(ret) >= 1
    /\ args.valid_labels = <<ResponseLabel("A"), ResponseLabel("B"), ResponseLabel("C")>>
    /\ args.parsed = <<ResponseLabel("Z"), ResponseLabel("B"), ResponseLabel("B")>>
    /\ ret[1] = <<ResponseLabel("B"), ResponseLabel("A"), ResponseLabel("C")>>

----------------------------------------------------------------------------
(* The aggregators on their own (AggregateSpec).                           *)

RankingsReturned == fn = "calculate_aggregate_rankings" /\ ret # <<>>
ScoresReturned == fn = "calculate_aggregate_scores" /\ ret # <<>>

\* the entry was shown the label: reviewed_labels names it, or is absent
ShownTo(e, l) == e.reviewed_labels # <<>> => l \in Range(e.reviewed_labels)

\* (reviewer, label) pairs that are a ranking vote for the model
RankingVotesFor(m) ==
    {v \in (1..Len(args.stage2_results)) \X DOMAIN args.label_to_model :
        /\ v[2] \in Range(ParsedRankingOf(args.stage2_results[v[1]]))
        /\ ShownTo(args.stage2_results[v[1]], v[2])
        /\ args.label_to_model[v[2]] = m}

\* (reviewer, label) pairs that are a score for the model
ScoreVotesFor(m) ==
    {v \in (1..Len(args.stage2_results)) \X DOMAIN args.label_to_model :
        /\ v[2] \in DOMAIN ParsedScoresOf(args.stage2_results[v[1]])
        /\ ShownTo(args.stage2_results[v[1]], v[2])
        /\ args.label_to_model[v[2]] = m}

EntriesOf(list, m) == {i \in 1..Len(list) : list[i].model = m}

\* C15: reviewer R's vote for label L is counted if and only if L occurs in
\* R's parsed ranking, L is in R's reviewed_labels (when present and not
\* empty) and L is a key of label_to_model; a label R was not shown or
\* omitted gets no vote from R; the same holds for the scores
C15_VotesOnlyForShownLabels ==
    /\ RankingsReturned =>
          /\ \A i \in 1..Len(ret[1]) : ret[1][i].model \in Range(args.label_to_model)
          /\ \A m \in Range(args.label_to_model) :
                IF RankingVotesFor(m) = {}
                  THEN EntriesOf(ret[1], m) = {}
                  ELSE /\ Cardinality(EntriesOf(ret[1], m)) = 1
                       /\ \A i \in EntriesOf(ret[1], m) :
                             ret[1][i].rankings_count = Cardinality(RankingVotesFor(m))
    /\ ScoresReturned =>
          /\ \A i \in 1..Len(ret[1]) : ret[1][i].model \in Range(args.label_to_model)
          /\ \A m \in Range(args.label_to_model) :
                IF ScoreVotesFor(m) = {}
                  THEN EntriesOf(ret[1], m) = {}
                  ELSE /\ Cardinality(EntriesOf(ret[1], m)) = 1
                       /\ \A i \in EntriesOf(ret[1], m) :
                             ret[1][i].scores_count = Cardinality(ScoreVotesFor(m))

\* a reviewer that was shown [A, C] ranked [A, B, C]: the worker behind
\* "Response B" has no entry
C15_Witness ==
    /\ RankingsReturned
    /\ \E k \in 1..Len(args.stage2_results) :
          /\ args.stage2_results[k].parsed_ranking = <<RA, RB, RC>>
          /\ args.stage2_results[k].reviewed_labels = <<RA, RC>>
    /\ RB \in DOMAIN args.label_to_model
    /\ EntriesOf(ret[1], args.label_to_model[RB]) = {}
    /\ EntriesOf(ret[1], args.label_to_model[RA]) # {}

\* reviewers with a ranking vote for the model
ReviewersRanking(m) == {v[1] : v \in RankingVotesFor(m)}

\* 1-based position of a counted label among the counted labels of its
\* reviewer's ranking
PositionOf(v) ==
    LET e == args.stage2_results[v[1]]
        parsed == ParsedRankingOf(e)
    IN  1 + Cardinality({l \in DOMAIN args.label_to_model :
                            /\ l \in Range(parsed)
                            /\ ShownTo(e, l)
                            /\ FirstIndex(parsed, l) < FirstIndex(parsed, v[2])})

RECURSIVE PositionSum(_)
PositionSum(V) ==
    IF V = {} THEN 0
    ELSE LET v == CHOOSE v \in V : TRUE IN PositionOf(v) + PositionSum(V \ {v})

\* hundredths is the two-decimal number nearest to num / den
NearestHundredth(hundredths, num, den) ==
    /\ 2 * (100 * num - hundredths * den) <= den
    /\ 2 * (hundredths * den - 100 * num) <= den

\* C16 as stated: rankings_count is the number of reviewers that ranked the
\* worker and average_rank is exactly the mean of its positions
C16_Original ==
    RankingsReturned =>
        \A m \in Range(args.label_to_model) :
            /\ RankingVotesFor(m) = {} => EntriesOf(ret[1], m) = {}
            /\ RankingVotesFor(m) # {} =>
                  /\ EntriesOf(ret[1], m) # {}
                  /\ \A i \in EntriesOf(ret[1], m) :
                        /\ ret[1][i].rankings_count = Cardinality(ReviewersRanking(m))
                        /\ ret[1][i].average_rank * Cardinality(ReviewersRanking(m))
                              = 100 * PositionSum(RankingVotesFor(m))

\* C16: a worker with a counted vote has one entry, whose rankings_count is
\* the number of counted votes (one per reviewer and label of the worker)
\* and whose average_rank is the mean of the positions of these votes
\* rounded to two decimals; a worker with no vote has no entry
C16_AverageRankRounded ==
    RankingsReturned =>
        \A m \in Range(args.label_to_model) :
            /\ RankingVotesFor(m) = {} => EntriesOf(ret[1], m) = {}
            /\ RankingVotesFor(m) # {} =>
                  /\ Cardinality(EntriesOf(ret[1], m)) = 1
                  /\ \A i \in EntriesOf(ret[1], m) :
                        /\ ret[1][i].rankings_count = Cardinality(RankingVotesFor(m))
                        /\ NearestHundredth(ret[1][i].average_rank,
                                            PositionSum(RankingVotesFor(m)),
                                            Cardinality(RankingVotesFor(m)))
            /\ (\A l1, l2 \in DOMAIN args.label_to_model :
                    args.label_to_model[l1] = args.label_to_model[l2] => l1 = l2)
                  => Cardinality(RankingVotesFor(m)) = Cardinality(ReviewersRanking(m))

\* two reviewers ranked [B, A] and [A, B]: both workers have average_rank
\* 1.5 and rankings_count 2
C16_Witness ==
    /\ RankingsReturned
    /\ Len(args.stage2_results) = 2
    /\ args.stage2_results[1].parsed_ranking = <<RB, RA>>
    /\ args.stage2_results[2].parsed_ranking = <<RA, RB>>
    /\ args.label_to_model = (RA :> Names[1] @@ RB :> Names[2])
    /\ Len(ret[1]) = 2
    /\ \A i \in 1..2 : ret[1][i].average_rank = 150 /\ ret[1][i].rankings_count = 2

\* C17: the AggregateRanking list is ascending by average_rank, and entries
\* with equal average_rank are ordered by worker name
C17_RankingTiesByName ==
    RankingsReturned =>
        \A i, j \in 1..Len(ret[1]) :
            i < j =>
                \/ ret[1][i].average_rank < ret[1][j].average_rank
                \/ /\ ret[1][i].average_rank = ret[1][j].average_rank
                   /\ NameOrder(ret[1][i].model) < NameOrder(ret[1][j].model)

\* a score of a worker: the parsed score of a (reviewer, label) pair
ScoreAt(v) == ParsedScoresOf(args.stage2_results[v[1]])[v[2]]

RECURSIVE AccuracySum(_)
AccuracySum(V) ==
    IF V = {} THEN 0
    ELSE LET v == CHOOSE v \in V : TRUE IN ScoreAt(v).accuracy + AccuracySum(V \ {v})

RECURSIVE InsightSum(_)
InsightSum(V) ==
    IF V = {} THEN 0
    ELSE LET v == CHOOSE v \in V : TRUE IN ScoreAt(v).insight + InsightSum(V \ {v})

RECURSIVE TotalSum(_)
TotalSum(V) ==
    IF V = {} THEN 0
    ELSE LET v == CHOOSE v \in V : TRUE IN ScoreAt(v).total + TotalSum(V \ {v})

\* descending by average_total, then average_accuracy, then
\* average_insight, then ascending by worker name
ScoreOrder(a, b) ==
    \/ a.average_total > b.average_total
    \/ /\ a.average_total = b.average_total
       /\ \/ a.average_accuracy > b.average_accuracy
          \/ /\ a.average_accuracy = b.average_accuracy
             /\ \/ a.average_insight > b.average_insight
                \/ /\ a.average_insight = b.average_insight
                   /\ NameOrder(a.model) < NameOrder(b.model)

ScoresSorted == \A i, j \in 1..Len(ret[1]) : i < j => ScoreOrder(ret[1][i], ret[1][j])

\* C18 as stated: the entry holds exactly the means over the scores_count
\* reviewers that scored the worker, and the list is sorted
C18_Original ==
    ScoresReturned =>
        /\ ScoresSorted
        /\ \A i \in 1..Len(ret[1]) :
              LET V == ScoreVotesFor(ret[1][i].model)
                  n == Cardinality({v[1] : v \in V})
              IN  /\ ret[1][i].scores_count = n
                  /\ ret[1][i].average_accuracy * n = 100 * AccuracySum(V)
                  /\ ret[1][i].average_insight * n = 100 * InsightSum(V)
                  /\ ret[1][i].average_total * n = 100 * TotalSum(V)

\* C18: the entry holds the means of accuracy, insight and total over the
\* scores_count counted scores of the worker, each rounded to two decimals,
\* and the list is sorted descending by average_total, average_accuracy,
\* average_insight, then ascending by worker name
C18_ScoreMeansRoundedAndSorted ==
    ScoresReturned =>
        /\ ScoresSorted
        /\ \A i \in 1..Len(ret[1]) :
              LET V == ScoreVotesFor(ret[1][i].model)
                  n == Cardinality(V)
              IN  /\ n > 0
                  /\ ret[1][i].scores_count = n
                  /\ NearestHundredth(ret[1][i].average_accuracy, AccuracySum(V), n)
                  /\ NearestHundredth(ret[1][i].average_insight, InsightSum(V), n)
                  /\ NearestHundredth(ret[1][i].average_total, TotalSum(V), n)

\* three workers with average_total 15: the one with the lower accuracy is
\* last, the two that are equal in everything are in name order
C18_Witness ==
    /\ ScoresReturned
    /\ Len(ret[1]) = 3
    /\ \A i \in 1..3 : ret[1][i].average_total = ret[1][1].average_total
    /\ ret[1][1].average_accuracy = ret[1][2].average_accuracy
    /\ ret[1][1].average_insight = ret[1][2].average_insight
    /\ ret[1][3].average_accuracy < ret[1][1].average_accuracy

----------------------------------------------------------------------------
(* parse_ranking_from_text on its own (ParseSpec).                         *)

ParseReturned == fn = "parse_ranking_from_text" /\ ret # <<>>

MarkerCount(text) == Cardinality({k \in 1..Len(text) : text[k] = Marker})

\* the labels of the spans of the given kinds, in text order
LabelsOfKinds(text, kinds) ==
    LET at == IndexList({k \in 1..Len(text) : text[k].kind \in kinds}, 1, Len(text))
    IN  [i \in 1..Len(at) |-> ResponseLabel(text[at[i]].letter)]

\* the text after the last marker
AfterLastMarker(text) ==
    LET last == CHOOSE k \in 1..Len(text) :
                    text[k] = Marker /\ \A j \in (k + 1)..Len(text) : text[j] # Marker
    IN  SubSeq(text, last + 1, Len(text))

\* C19: with more than one "FINAL RANKING:" marker the labels are taken
\* only from the text after the last marker
C19_AfterLastMarker ==
    (ParseReturned /\ MarkerCount(args.ranking_text) > 1) =>
        LET section == AfterLastMarker(args.ranking_text)
        IN  ret[1] = IF LabelsOfKinds(section, {"numbered"}) # <<>>
                       THEN LabelsOfKinds(section, {"numbered"})
                       ELSE LabelsOfKinds(section, {"numbered", "mention", "score"})

\* the section the parser reads: from the first marker to the next marker
\* or the end of the text
SectionRead(text) ==
    LET first == CHOOSE k \in 1..Len(text) :
                     text[k] = Marker /\ \A j \in 1..(k - 1) : text[j] # Marker
        stops == {k \in (first + 1)..Len(text) : text[k] = Marker} \cup {Len(text) + 1}
        stop == CHOOSE k \in stops : \A j \in stops : k <= j
    IN  SubSeq(text, first + 1, stop - 1)

\* C20: with the marker and a numbered item in the ranking section, exactly
\* the labels of the numbered items in order; with the marker and no
\* numbered item, every "Response <letter>" of the section in order; with
\* no marker, every "Response <letter>" of the text in order; the empty
\* sequence when nothing matches
C20_StrategyOrder ==
    ParseReturned =>
        LET text == args.ranking_text
            every == {"numbered", "mention", "score"}
        IN  /\ (MarkerCount(text) > 0 /\ LabelsOfKinds(SectionRead(text), {"numbered"}) # <<>>)
                  => ret[1] = LabelsOfKinds(SectionRead(text), {"numbered"})
            /\ (MarkerCount(text) > 0 /\ LabelsOfKinds(SectionRead(text), {"numbered"}) = <<>>)
                  => ret[1] = LabelsOfKinds(SectionRead(text), every)
            /\ MarkerCount(text) = 0 => ret[1] = LabelsOfKinds(text, every)
            /\ (\A k \in 1..Len(text) : text[k].kind \notin every) => ret[1] = <<>>

\* a mention before the marker, and a numbered item and a plain mention
\* after it: only the numbered item is returned
C20_Witness ==
    /\ ParseReturned
    /\ args.ranking_text = <<Mention("A"), Marker, Numbered("B"), Mention("A")>>
    /\ ret[1] = <<RB>>

----------------------------------------------------------------------------
(* parse_scores_from_text: C21, C22                                        *)

ScoresReturnedFrom == fn = "parse_scores_from_text" /\ ret # <<>>

\* positions of the score lines of a label in a text
LinesOf(text, l) ==
    {k \in 1..Len(text) :
        text[k].kind \in ScorePattern /\ ResponseLabel(text[k].letter) = l}

\* the entry e is what the claim says of the score line: the components
\* limited to 0..10, their sum as the total, the reported total kept aside
FitsLine(e, line) ==
    /\ e.accuracy = (IF line.accuracy > 10 THEN 10 ELSE line.accuracy)
    /\ e.insight = (IF line.insight > 10 THEN 10 ELSE line.insight)
    /\ e.accuracy \in 0..10 /\ e.insight \in 0..10
    /\ e.total = e.accuracy + e.insight
    /\ e.total \in 0..20
    /\ e.total_reported = line.total
    /\ e.total_ok = (e.total_reported = e.accuracy + e.insight)

\* C21: every entry of the result is made from one score line of its label
\* in the text: accuracy and insight limited to 0..10, total their sum
\* (within 0..20) whatever total was reported, total_reported the reported
\* number, total_ok true exactly when the reported number is that sum; and
\* that line is the first of the label: an earlier line of the label is cut
\* off from it by a "SCORES:" header.
C21_ScoreClampedFirstWins ==
    ScoresReturnedFrom =>
        \A l \in DOMAIN ret[1] :
            \E k \in LinesOf(args.ranking_text, l) :
                /\ FitsLine(ret[1][l], args.ranking_text[k])
                /\ \A j \in LinesOf(args.ranking_text, l) :
                      j < k => \E h \in (j + 1)..(k - 1) :
                                  args.ranking_text[h] \in ScoresHeaderPattern

\* a label with two score lines that differ, the first reporting a total
\* that is not the sum and an accuracy beyond 10
C21_Witness ==
    /\ ScoresReturnedFrom
    /\ args.ranking_text = <<ScoreLine("A", 12, 3, 15), ScoreLine("A", 8, 6, 14)>>
    /\ ret[1][ResponseLabel("A")].accuracy = 10
    /\ ret[1][ResponseLabel("A")].total = 13
    /\ ret[1][ResponseLabel("A")].total_reported = 15
    /\ ~ret[1][ResponseLabel("A")].total_ok

\* labels of the score lines at the given positions of a text
LabelsAt(text, K) ==
    {ResponseLabel(text[k].letter) :
        k \in {k \in K \cap (1..Len(text)) : text[k].kind \in ScorePattern}}

\* position of the first "SCORES:" header of a text, in either case (0 if none)
FirstScoresHeader(text) ==
    CHOOSE s \in 0..Len(text) :
        /\ s # 0 => text[s] \in ScoresHeaderPattern
        /\ \A h \in 1..Len(text) :
              text[h] \in ScoresHeaderPattern => (s # 0 /\ s <= h)

\* positions of the "FINAL RANKING:" headers that follow position s
FinalHeadersAfter(text, s) ==
    {f \in (s + 1)..Len(text) : text[f] \in FinalHeaderPattern}

\* C22 as stated: with "SCORES:" and a following "FINAL RANKING:" the labels
\* found are those of the score lines between the two; with either of them
\* missing they are those of the score lines of the whole text.
C22_Original ==
    ScoresReturnedFrom =>
        LET text == args.ranking_text
            s == FirstScoresHeader(text)
        IN  DOMAIN ret[1] =
              IF s # 0 /\ FinalHeadersAfter(text, s) # {}
                THEN LabelsAt(text, {k \in (s + 1)..Len(text) :
                                        \A f \in FinalHeadersAfter(text, s) : k < f})
                ELSE LabelsAt(text, 1..Len(text))

\* C22 amended: the labels found are those of the score lines that come
\* after the first "SCORES:" header (after the start of the text if there is
\* none) and before the first "FINAL RANKING:" header that follows it
\* (before the end of the text if there is none); each header is applied
\* whether or not the other one is present.
C22_ScoresRegion ==
    ScoresReturnedFrom =>
        LET text == args.ranking_text
            s == FirstScoresHeader(text)
        IN  DOMAIN ret[1] =
              LabelsAt(text, {k \in (s + 1)..Len(text) :
                                 \A f \in FinalHeadersAfter(text, s) : k < f})

\* no "SCORES:" header, and the only score line after "FINAL RANKING:": it
\* is not found
C22_Witness ==
    /\ ScoresReturnedFrom
    /\ args.ranking_text = <<Prose, Marker, ScoreLine("A", 8, 6, 14)>>
    /\ DOMAIN ret[1] = {}

----------------------------------------------------------------------------
(* Worker client: C23                                                      *)

ClientCall == fn \in {"worker_chat_full", "worker_synthesize_full"}

\* what the claim lists as failures of a call that has ended
ClientFailed ==
    \/ ~ValidPayload
    \/ /\ exchange # <<>>
       /\ \/ exchange[1].error # ""
          \/ exchange[1].status \notin 200..299
          \/ ~exchange[1].body.json
          \/ ~(RequiredFields(fn) \subseteq exchange[1].body.fields)

\* C23: a call of worker_chat_full or worker_synthesize_full never raises;
\* once it has ended it has returned, and it has returned None if the
\* payload was invalid, the request failed or timed out, the status was not
\* 2xx or the body did not fit the reply schema; it sends at most one HTTP
\* request, and none after the exchange has ended.
C23_ClientNeverRaises ==
    ClientCall =>
        /\ raised = ""
        /\ Len(posted) <= 1
        /\ pc = "done" => Len(ret) = 1
        /\ (pc = "done" /\ ClientFailed) => ret = <<None>>
        /\ (pc = "done" /\ ~ValidPayload) => posted = <<>>

\* a response with a 2xx status whose body is not JSON: one request, None
C23_Witness ==
    /\ ClientCall
    /\ pc = "done"
    /\ exchange # <<>>
    /\ exchange[1].error = "" /\ exchange[1].status = 200 /\ ~exchange[1].body.json
    /\ Len(posted) = 1
    /\ ret = <<None>>
    /\ raised = ""

----------------------------------------------------------------------------
(* Broadcast: C24                                                          *)

\* the Stage-1 broadcast has gathered the outcome of every call
BroadcastGathered ==
    /\ entry = "run_full_council"
    /\ Positions # {}
    /\ \A i \in Positions : s1[i] \notin {"idle", "pending"}

\* C24: in the mapping the broadcast returns, the entry under the name of
\* each listed worker is the outcome of the call made to that worker (its
\* reply, or None), whatever the outcomes of the other calls.
C24_BroadcastOwnReply ==
    BroadcastGathered =>
        \A i \in Positions : ResponsesGet(s1, council[i]) = s1[i]

----------------------------------------------------------------------------
(* Rewrite-retry: C25 .. C28                                               *)

\* the calls each council worker and the chairman have received so far are
\* within the bound: one per stage, and one rewrite per stage
CallsBounded ==
    /\ \A i \in Positions :
          /\ sent["s1"][i] <= 1 /\ sent["s1rw"][i] <= sent["s1"][i]
          /\ sent["s2"][i] <= 1 /\ sent["s2rw"][i] <= sent["s2"][i]
    /\ Len(synth_calls) <= 2
    /\ Len(synth_calls) >= 1 => synth_calls[1].draft = None
    /\ Len(synth_calls) = 2 =>
          /\ synth_calls[2].draft # None
          /\ synth # None /\ _contains_non_english_script(synth)

\* a call that came back absent was not followed by another call
AbsentNotReissued ==
    /\ \A i \in Positions :
          /\ s1[i] = None => (sent["s1"][i] = 1 /\ sent["s1rw"][i] = 0)
          /\ (s2[i].st = "done" /\ s2[i].resp = None) =>
                (sent["s2"][i] = 1 /\ sent["s2rw"][i] = 0)
    /\ (stage3_result # <<>> /\ synth = None) => Len(synth_calls) = 1

\* a step that issues a Stage-2 rewrite call is the arrival of that
\* worker's review, not None and with non-Latin script
RewriteAfterNonLatinReply ==
    \A i \in Positions :
        sent'["s2rw"][i] # sent["s2rw"][i] =>
            /\ s2[i].st = "called"
            /\ s2'[i].resp # None
            /\ ContainsNonEnglishScript(s2'[i].content)

\* C25: every council worker receives at most one Stage-1 call and one
\* Stage-1 rewrite call, at most one Stage-2 call and one Stage-2 rewrite
\* call, the chairman at most one synthesis call and one rewrite-only call;
\* a rewrite call is issued only on a reply that is not None and has
\* non-Latin script, and no call is issued again after it came back None.
C25_RewriteRetryBounded ==
    /\ [](CallsBounded /\ AbsentNotReissued)
    /\ [][RewriteAfterNonLatinReply]_vars

\* one reviewer's reply was rewritten once, another's call came back None
C25_Witness ==
    \E i, j \in Positions :
        /\ s2[i].st = "done" /\ sent["s2rw"][i] = 1 /\ sent["s2"][i] = 1
        /\ s2[j].st = "done" /\ s2[j].resp = None /\ sent["s2rw"][j] = 0

\* the operation has left Stage 1 of a run
Stage1Left ==
    /\ entry = "run_full_council"
    /\ pc \notin {"normalizing", "normalizing_wait", "stage1", "stage1_wait"}

\* C26: a council worker whose Stage-1 reply arrived keeps its Stage-1
\* entry whatever becomes of the rewrite; the entry holds the rewritten text
\* and rewrite_applied only if that text has no non-Latin script, else the
\* reply itself.
C26_Stage1RewriteKeepsEntry ==
    Stage1Left =>
        \A i \in Positions :
            ResponsesGet(s1, council[i]) # None =>
                \E k \in 1..Len(stage1_results) :
                    /\ stage1_results[k].model = council[i]
                    /\ stage1_results[k].rewrite_applied =>
                          ~_contains_non_english_script(stage1_results[k].response)
                    /\ ~stage1_results[k].rewrite_applied =>
                          stage1_results[k].response = ResponsesGet(s1, council[i])

\* C27: when the rewrite of a reviewer's reply ends and the text kept has
\* non-Latin script, that text is the reviewer's original reply.
C27_Stage2RewriteChecked ==
    [][\A i \in Positions :
          (s2[i].st = "rewriting" /\ s2'[i].st = "done"
              /\ ContainsNonEnglishScript(s2'[i].content))
            => s2'[i].content = s2[i].content]_vars

\* C28: once the chairman has replied and Stage 3 is over, a result that is
\* not an error result has been returned; its text is the rewrite only if
\* the first reply had non-Latin script and the rewrite has none, else it
\* is the first reply; and at most one rewrite-only call, with empty
\* stage1 and stage2, was sent.
C28_Stage3RewriteReturned ==
    (synth # None /\ pc \in {"done", "raised"}) =>
        /\ stage3_result # <<>>
        /\ ~stage3_result[1].error
        /\ IF stage3_result[1].rewrite_applied
             THEN /\ _contains_non_english_script(synth)
                  /\ stage3_result[1].response # ""
                  /\ ~_contains_non_english_script(stage3_result[1].response)
             ELSE stage3_result[1].response = synth
        /\ Len(synth_calls) = (IF _contains_non_english_script(synth) THEN 2 ELSE 1)
        /\ Len(synth_calls) = 2 =>
              (synth_calls[2].stage1 = <<>> /\ synth_calls[2].stage2 = <<>>)

----------------------------------------------------------------------------
(* Query normalisation: C29                                                *)

Normalized ==
    /\ entry = "run_full_council"
    /\ pc \notin {"normalizing", "normalizing_wait"}

\* the worker the claim names: the title generator if a council worker has
\* that name (the first one that has), else the first council worker
ClaimedTranslator ==
    IF \E i \in Positions : council[i] = title_generator
      THEN CHOOSE i \in Positions :
              /\ council[i] = title_generator
              /\ \A j \in 1..(i - 1) : council[j] # title_generator
      ELSE 1

\* the translation calls issued: none, or one to worker i
NoTranslationCall == \A i \in Positions : sent["norm"][i] = 0
OneTranslationCallTo(i) ==
    \A j \in Positions : sent["norm"][j] = (IF j = i THEN 1 ELSE 0)

\* C29 as stated: no call for a query without non-Latin script, else at
\* most one, to the claimed worker; the result is the original query text or
\* a non-empty translation without non-Latin script, and it is the original
\* text when the call came back None, empty or with non-Latin script.
C29_Original ==
    Normalized =>
        /\ ~_contains_non_english_script(orig_query) => NoTranslationCall
        /\ NoTranslationCall \/ OneTranslationCallTo(ClaimedTranslator)
        /\ \/ user_query = orig_query
           \/ user_query # "" /\ ~_contains_non_english_script(user_query)
        /\ (reply # <<>> /\ reply[1] \in {None, "", "zh", "ru"}) =>
              user_query = orig_query

\* C29 amended: the same, with the original query text stripped of its
\* surrounding blanks in place of the original query text, and the
\* translation stripped of surrounding blanks and quotes.
C29_NormalizeFallsBackToStrippedQuery ==
    Normalized =>
        /\ ~_contains_non_english_script(orig_query) =>
              (NoTranslationCall /\ reply = <<>> /\ user_query = Strip(orig_query))
        /\ _contains_non_english_script(orig_query) =>
              (OneTranslationCallTo(ClaimedTranslator) /\ Len(reply) = 1)
        /\ reply # <<>> =>
              IF reply[1] \in {None, "", " ", "''", "zh", "ru"}
                THEN user_query = Strip(orig_query)
                ELSE /\ user_query = StripQuotes(Strip(reply[1]))
                     /\ user_query # ""
                     /\ ~_contains_non_english_script(user_query)

\* a padded non-Latin query, the title generator is the second council
\* worker, and its translation still has non-Latin script
C29_Witness ==
    /\ Normalized
    /\ orig_query = " zh "
    /\ Len(council) >= 2
    /\ title_generator = council[2]
    /\ OneTranslationCallTo(2)
    /\ reply = <<"ru">>
    /\ user_query = "zh"

----------------------------------------------------------------------------
(* Title generation: C30                                                   *)

TitleEntry == entry = "generate_conversation_title"
TitleReturned == TitleEntry /\ pc = "done"

\* the calls of a kind issued so far, over all council workers
RECURSIVE CallsFrom(_, _)
CallsFrom(kind, i) ==
    IF i > Len(council) THEN 0 ELSE sent[kind][i] + CallsFrom(kind, i + 1)

\* C30: the title returned has at most 50 characters; it is the title with
\* its surrounding quotes removed, cut to its first 47 characters followed
\* by "..." when that is longer than 50; it is "New Conversation" when the
\* title call came back None; the title call goes to one council worker and
\* the chairman is never called; at most one rewrite call is issued, and
\* the title is the rewrite only if the rewrite has no non-Latin script.
C30_TitleBoundedAndDefault ==
    TitleEntry =>
        /\ CallsFrom("title", 1) <= 1 /\ CallsFrom("titlerw", 1) <= 1
        /\ synth_calls = <<>>
        /\ TitleReturned =>
              /\ Len(ret) = 1 /\ Len(ret[1]) <= 50
              /\ CallsFrom("title", 1) = 1
              /\ IF reply[1].resp = None
                   THEN ret[1] = DefaultTitle
                   ELSE LET cleaned == StripChars(title, Quotes)
                        IN  IF Len(cleaned) > 50
                              THEN /\ Len(ret[1]) = 50
                                   /\ SubSeq(ret[1], 1, 47) = SubSeq(cleaned, 1, 47)
                                   /\ SubSeq(ret[1], 48, 50) = <<".", ".", ".">>
                              ELSE ret[1] = cleaned
              /\ \/ title = StripChars(reply[1].content, Blanks)
                 \/ CallsFrom("titlerw", 1) = 1 /\ ~HasNonLatinChar(title)

\* the title had non-Latin script and its rewrite, of 51 characters and
\* Latin-only, was taken and cut
C30_Witness ==
    /\ TitleReturned
    /\ reply[1].resp # None /\ HasNonLatinChar(reply[1].content)
    /\ CallsFrom("titlerw", 1) = 1
    /\ Len(title) = 51
    /\ Len(ret[1]) = 50
    /\ ret[1][50] = "."

----------------------------------------------------------------------------
(* Topology: C31                                                           *)

\* C31: no pipeline operation runs with a topology whose title_generator
\* names no council worker: whenever an operation has sent a translation
\* call, title_generator is unset or the name of a council worker.
C31_TitleGeneratorIsMember ==
    (entry = "run_full_council" /\ ~NoTranslationCall) =>
        (title_generator = None \/ \E i \in Positions : council[i] = title_generator)

----------------------------------------------------------------------------
(* Termination and the Stage-3 query: C34, C35                             *)

\* C34: when every call ends, a run of run_full_council ends in Done or in
\* Failed (no Stage-1 response).
C34_RunEnds ==
    (entry = "run_full_council") ~> (pc \in {"done", "failed"})

\* C35: the query run_full_council holds for the synthesis call (line 766)
\* is the query it was called with, also after normalisation took a
\* translation (the query has no surrounding blanks).
C35_ChairmanGetsOriginalQuery ==
    (Normalized /\ orig_query = Strip(orig_query)) => user_query = orig_query

----------------------------------------------------------------------------
(* worker.py: the active-request counter and the role check.               *)

ModelEndpoints == {"/api/chat", "/api/synthesize"}

\* the accepted requests whose model call has not ended yet
InFlight == {r \in Requests : worker.requests[r].pc = "ollama_chat"}

\* the requests that passed the role check
Accepted ==
    {r \in Requests : /\ worker.requests[r].endpoint \in ModelEndpoints
                      /\ worker.requests[r].status # 403}

CounterMatchesInFlight ==
    /\ worker.active_requests = Cardinality(InFlight)
    /\ worker.active_requests >= 0
    /\ InFlight = {} => worker.active_requests = 0
    /\ worker.ollama_calls = Cardinality(Accepted)
    /\ \A r \in Requests :
          worker.requests[r].reply # <<>> =>
              (worker.requests[r].reply[1].busy
                  <=> worker.requests[r].reply[1].active_requests > 0)

CounterSteps ==
    \A r \in Requests :
        /\ (worker.requests[r].pc = "ollama_chat" /\ worker'.requests[r].pc = "done")
              => /\ worker'.active_requests = worker.active_requests - 1
                 /\ worker'.requests[r].exit \in OllamaExits
        /\ (worker.requests[r].pc = "ollama_health" /\ worker'.requests[r].pc = "done")
              => /\ worker'.requests[r].reply[1].active_requests = worker.active_requests
                 /\ worker'.requests[r].reply[1].busy = (worker.active_requests > 0)

\* C32: in every interleaving of requests on a worker, the counter equals
\* the number of accepted requests in flight: it is raised in the step that
\* dispatches the model call, lowered by one in the step that ends it
\* (return, error or timeout), never negative, 0 when nothing is in flight;
\* a health reply says busy exactly when the counter it read is above 0
C32_CounterIsInFlight == []CounterMatchesInFlight /\ [][CounterSteps]_vars

\* a model call has ended in a timeout and one in an error, a third is in
\* flight; and: a health reply was built while a request was in flight
C32_Witness ==
    /\ entry = "" /\ worker # <<>>
    /\ \E r1, r2, r3 \in Requests :
          /\ worker.requests[r1].exit = "timeout"
          /\ worker.requests[r2].pc = "ollama_chat"
          /\ worker.requests[r3].reply # <<>>
          /\ worker.requests[r3].reply[1].busy

\* the requests sent to an endpoint the worker's role does not serve
Refused ==
    {r \in Requests : /\ worker.requests[r].endpoint \in ModelEndpoints
                      /\ RoleOf(worker.requests[r].endpoint) # worker.role}

RefusedWith403 ==
    \A r \in Refused : /\ worker.requests[r].pc = "done"
                       /\ worker.requests[r].status = 403

RefusalSteps ==
    \A r \in Requests :
        (worker.requests[r].pc = "new" /\ worker'.requests[r].status = 403)
            => /\ worker'.active_requests = worker.active_requests
               /\ worker'.ollama_calls = worker.ollama_calls

\* C33: a council worker answers every /api/synthesize request and a
\* chairman worker every /api/chat request with 403; the step that does so
\* dispatches no model call and leaves the counter as it was
C33_WrongRoleRefused == []RefusedWith403 /\ [][RefusalSteps]_vars

\* a request was refused while another one was in flight
C33_Witness ==
    /\ entry = "" /\ worker # <<>>
    /\ \E r1, r2 \in Requests :
          /\ worker.requests[r1].status = 403
          /\ worker.requests[r2].pc = "ollama_chat"
          /\ worker.active_requests = 1

----------------------------------------------------------------------------
(* storage.py: the load-time upgrade.                                      *)

\* the conversations a caller holds or finds: the file and the last value
\* get_conversation returned
Conversations == {disk.file.conversation} \cup Range(ret)

\* the Stage-2 entries of the assistant messages of a conversation
Stage2EntriesIn(conversation) ==
    UNION {Range(conversation.messages[k].stage2) :
              k \in {j \in 1..Len(conversation.messages) :
                        conversation.messages[j].role = "assistant"}}

\* C36: once add_assistant_message has stored a bundle of the pipeline,
\* every Stage-2 entry that get_conversation returns or leaves in the file
\* has in parsed_ranking only labels of its reviewed_labels
C36_UpgradeKeepsReviewedLabels ==
    args.metadata # <<>> =>
        \A c \in Conversations : \A e2 \in Stage2EntriesIn(c) :
            Range(e2.parsed_ranking) \subseteq Range(e2.reviewed_labels)

\* C37: after a get_conversation that upgraded and saved the record, every
\* further get_conversation reports no modification and writes nothing
C37_UpgradeIdempotent ==
    \A k \in 2..Len(disk.log) :
        (\E j \in 1..(k - 1) : disk.log[j].wrote)
            => ~disk.log[k].mutated /\ ~disk.log[k].wrote

====
